---- MODULE Spec2Model ----
(***************************************************************************)
(* A model of the claude-code-proxy gateway core:                          *)
(*   - the streaming translator, both variants                             *)
(*     (src/conversion/response_converter.py),                             *)
(*   - the dispatch client (src/core/client.py),                           *)
(*   - the API key manager (src/core/api_key_manager.py),                  *)
(*   - the request converter (src/conversion/request_converter.py),        *)
(*   - the response converter (src/conversion/response_converter.py).      *)
(*                                                                         *)
(* Strings of the wire protocol that the code inspects character by        *)
(* character (tool-call argument fragments) are sequences of one-character *)
(* strings; everything else the code only compares is a TLA+ string.       *)
(* Python's None is the distinguished string None.                         *)
(***************************************************************************)
EXTENDS Integers, Sequences, FiniteSets, TLC

VARIABLES
    \* ---- streaming translator (one run of the generator) ----
    variant,              \* "basic" | "cancel": which of the two generators runs
    phase,                \* "start" | "streaming" | "done" | "error" | "raised"
    out,                  \* the events yielded so far, in order
    tool_block_counter,   \* response_converter.py:158 / 298
    current_tool_calls,   \* ordered dict tc_index -> accumulator, as a sequence
    final_stop_reason,    \* response_converter.py:160 / 300
    usage_data,           \* response_converter.py:272 / 301
    lines_read,           \* number of upstream lines consumed so far
    loop_exc,             \* the exception raised inside the loop, NoExc if none
    saw_disconnect,       \* http_request.is_disconnected() has answered True
    \* ---- dispatch client and key manager ----
    active_requests,      \* client.py:22  request id -> cancel event is set
    current_index,        \* api_key_manager.py:22
    failed_keys,          \* api_key_manager.py:23  key -> failure time, for the keys that have one
    now,                  \* time.time()
    call,                 \* per request id: the state of its logical call
    \* ---- observations and the concurrent views ----
    last_line,            \* the line the translator took from the upstream last
    reply,                \* what the upstream has streamed so far, assembled into one message
    pair,                 \* variant -> a run of that generator, both over one upstream
    lock,                 \* api_key_manager.py:24  the handler that holds it, or NoHandler
    handler,              \* per request handler: its call into the key manager
    key_log,              \* the keys get_next_key returned while no key had failed
    \* ---- request converter ----
    claude_request,       \* request_converter.py:12  the request to convert
    supports_prompt_cache,\* request_converter.py:125, 140  config.supports_prompt_cache
    min_tokens_limit,     \* config.py:31  config.min_tokens_limit
    max_tokens_limit,     \* config.py:30  config.max_tokens_limit
    openai_request,       \* request_converter.py:163  the converted request, once built
    \* ---- response converter ----
    openai_response,      \* response_converter.py:10  the upstream's complete response
    claude_response       \* response_converter.py:128  the conversion's outcome

trVars == <<variant, phase, out, tool_block_counter, current_tool_calls,
            final_stop_reason, usage_data, lines_read, loop_exc, saw_disconnect>>
kmVars == <<current_index, failed_keys, now>>
clVars == <<active_requests, call>>
auxVars == <<pair, lock, handler, key_log>>
rqVars == <<claude_request, supports_prompt_cache, min_tokens_limit,
           max_tokens_limit, openai_request>>
rsVars == <<openai_response, claude_response>>
vars == <<trVars, kmVars, clVars, last_line, reply, auxVars, rqVars, rsVars>>

-----------------------------------------------------------------------------
(* Bounds of the model *)

MaxLines == 2          \* upstream lines one translator run may consume
MaxTcIndex == 1        \* upstream tool indices are 0..MaxTcIndex

None == "<None>"

\* Python truthiness of an optional string: None and "" are falsy.
Truthy(v) == v # None /\ v # ""

-----------------------------------------------------------------------------
(* json.loads, on the alphabet the argument fragments are drawn from:      *)
(*   value ::= number | array     number ::= "1"+                          *)
(*   array ::= "[" "]" | "[" value ("," value)* "]"                        *)
(* ParseValue(s, i) is the position after the value starting at i, or 0.   *)

RECURSIVE SkipDigits(_, _)
SkipDigits(s, i) ==
    IF i <= Len(s) /\ s[i] = "1" THEN SkipDigits(s, i + 1) ELSE i

RECURSIVE ParseValue(_, _), ParseElems(_, _)
ParseValue(s, i) ==
    IF i > Len(s) THEN 0
    ELSE IF s[i] = "1" THEN SkipDigits(s, i)
    ELSE IF s[i] = "[" THEN
        IF i + 1 <= Len(s) /\ s[i + 1] = "]" THEN i + 2 ELSE ParseElems(s, i + 1)
    ELSE 0

ParseElems(s, i) ==
    LET j == ParseValue(s, i) IN
    IF j = 0 \/ j > Len(s) THEN 0
    ELSE IF s[j] = "]" THEN j + 1
    ELSE IF s[j] = "," THEN ParseElems(s, j + 1)
    ELSE 0

\* TRUE iff json.loads(s) returns, FALSE iff it raises JSONDecodeError.
JsonLoadsOk(s) == ParseValue(s, 1) = Len(s) + 1

-----------------------------------------------------------------------------
(* The events of the Source-Protocol stream.  data is always a sequence of *)
(* strings: the text of a text_delta, the characters of a partial_json,    *)
(* <<id, name>> of a tool_use block.                                       *)

ZeroUsage == [input_tokens |-> 0, output_tokens |-> 0]

Ev(type, index, sub, data, usage) ==
    [type |-> type, index |-> index, sub |-> sub, data |-> data, usage |-> usage]

MessageStart == Ev("message_start", -1, "", <<>>, ZeroUsage)
TextBlockStart == Ev("content_block_start", 0, "text", <<>>, ZeroUsage)
Ping == Ev("ping", -1, "", <<>>, ZeroUsage)
TextDelta(text) == Ev("content_block_delta", 0, "text_delta", <<text>>, ZeroUsage)
ToolBlockStart(i, id, name) ==
    Ev("content_block_start", i, "tool_use", <<id, name>>, ZeroUsage)
InputJsonDelta(i, buf) == Ev("content_block_delta", i, "input_json_delta", buf, ZeroUsage)
BlockStop(i) == Ev("content_block_stop", i, "", <<>>, ZeroUsage)
MessageDelta(stop, usage) == Ev("message_delta", -1, stop, <<>>, usage)
MessageStop == Ev("message_stop", -1, "", <<>>, ZeroUsage)
ErrorEvent(sub) == Ev("error", -1, sub, <<>>, ZeroUsage)

\* response_converter.py:150-154 and 290-294.
InitialEvents == <<MessageStart, TextBlockStart, Ping>>

-----------------------------------------------------------------------------
(* The upstream: the lines the translator may be handed, and the           *)
(* exceptions the upstream iterator may raise.                             *)

Absent == -1

\* A usage object of a chunk; a field that is Absent is not in the dict.
NoUsage == [present |-> FALSE, input_tokens |-> Absent, prompt_tokens |-> Absent,
            output_tokens |-> Absent, completion_tokens |-> Absent]
UsageObjs ==
    { [present |-> TRUE, input_tokens |-> 3, prompt_tokens |-> Absent,
       output_tokens |-> 5, completion_tokens |-> Absent],
      [present |-> TRUE, input_tokens |-> Absent, prompt_tokens |-> 4,
       output_tokens |-> Absent, completion_tokens |-> 6] }

Frags == { <<>>, <<"[">>, <<"1">>, <<"]">> }

TcDelta(index, id, name, has_args, arguments) ==
    [index |-> index, id |-> id, name |-> name,
     has_args |-> has_args, arguments |-> arguments]

\* One element of delta["tool_calls"].  has_args is FALSE when the function
\* object has no "arguments" key or its value is None.
TcDeltas ==
    { TcDelta(i, id, name, FALSE, <<>>) :
        i \in 0..MaxTcIndex, id \in {None, "id"}, name \in {None, "fn"} }
    \cup
    { TcDelta(x[1], x[2], x[3], TRUE, x[4]) :
        x \in (0..MaxTcIndex) \X {None, "id"} \X {None, "fn"} \X Frags }
    \cup
    { TcDelta(0, "", "fn", TRUE, <<"1">>) }

Line(kind, usage, has_choices, content, tc_mode, tool_calls, finish_reason) ==
    [kind |-> kind, usage |-> usage, has_choices |-> has_choices,
     content |-> content, tc_mode |-> tc_mode, tool_calls |-> tool_calls,
     finish_reason |-> finish_reason]

PlainLine(kind) == Line(kind, NoUsage, FALSE, None, "absent", <<>>, None)

FinishReasons == {"stop", "length", "tool_calls", "function_call", "content_filter"}

\* The lines of the upstream sequence the model draws from:
\*   blank, without the "data: " prefix, "data: [DONE]", a non-JSON payload;
\*   chunks without choices; text chunks; tool-call chunks; mixed chunks;
\*   chunks whose delta has "tool_calls": null, as chunk.model_dump() of
\*   client.py:184 writes the delta of a chunk without tool calls.
Lines ==
    { PlainLine(k) : k \in {"blank", "nodata", "done", "badjson"} }
    \cup { Line("chunk", u, FALSE, None, "absent", <<>>, None) :
             u \in UsageObjs \cup {NoUsage} }
    \cup { Line("chunk", NoUsage, TRUE, c, "absent", <<>>, f) :
             c \in {None, "a", "b"}, f \in FinishReasons \cup {None} }
    \cup { Line("chunk", u, TRUE, "a", "absent", <<>>, None) : u \in UsageObjs }
    \cup { Line("chunk", NoUsage, TRUE, None, "list", <<t>>, None) : t \in TcDeltas }
    \cup { Line("chunk", NoUsage, TRUE, None, "list",
                <<TcDelta(0, "id", "fn", TRUE, <<"1">>), TcDelta(1, "id", "fn", TRUE, <<"[">>)>>,
                None),
           Line("chunk", NoUsage, TRUE, None, "list",
                <<TcDelta(0, "id", "fn", TRUE, <<"[">>), TcDelta(0, None, None, TRUE, <<"]">>)>>,
                None),
           Line("chunk", NoUsage, TRUE, "a", "list",
                <<TcDelta(0, "id", "fn", TRUE, <<"1">>)>>, "tool_calls"),
           Line("chunk", NoUsage, TRUE, None, "list",
                <<TcDelta(1, "id", "fn", FALSE, <<>>), TcDelta(0, "id", "fn", FALSE, <<>>)>>,
                None),
           Line("chunk", NoUsage, TRUE, None, "list", <<>>, None),
           Line("chunk", NoUsage, TRUE, "a", "null", <<>>, None),
           Line("chunk", NoUsage, TRUE, "a", "null", <<>>, "stop") }

\* What is kept of a line once it has been consumed: everything but the
\* elements of its tool_calls list.
Seen(line) ==
    [kind |-> line.kind, usage |-> line.usage, has_choices |-> line.has_choices,
     content |-> line.content, tc_mode |-> line.tc_mode,
     finish_reason |-> line.finish_reason]
NoLine == Seen(PlainLine("none"))

\* What the upstream iterator may raise: any Exception, or one of the
\* HTTPExceptions the dispatch client raises (client.py:63,93,105,114,120,128,135).
Exc(cls, status) == [cls |-> cls, status |-> status]
HttpStatuses == {499, 401, 429, 400, 500, 503}
NoExc == Exc("", 0)
Excs == { Exc("Exception", 0) } \cup { Exc("HTTPException", s) : s \in HttpStatuses }

\* The message the chunks streamed so far add up to: the text deltas
\* concatenated, the tool calls by upstream index with the id and name they
\* were given and their argument fragments concatenated, and the finish
\* reason.  malformed: a line that is no chunk was among them; after_finish: a
\* chunk with choices came after the finish reason.
NoReply ==
    [content |-> <<>>, tool_calls |-> <<>>, finish_reason |-> None,
     malformed |-> FALSE, after_finish |-> FALSE]

AssembleTcDelta(tool_calls, tc_delta) ==
    LET calls0 == IF \E k \in 1..Len(tool_calls) : tool_calls[k].index = tc_delta.index
                  THEN tool_calls
                  ELSE Append(tool_calls,
                              [index |-> tc_delta.index, id |-> None, name |-> None,
                               has_args |-> FALSE, arguments |-> <<>>])
        k == CHOOSE k \in 1..Len(calls0) : calls0[k].index = tc_delta.index
    IN [calls0 EXCEPT
          ![k].id = IF tc_delta.id # None THEN tc_delta.id ELSE @,
          ![k].name = IF tc_delta.name # None THEN tc_delta.name ELSE @,
          ![k].has_args = @ \/ tc_delta.has_args,
          ![k].arguments = IF tc_delta.has_args THEN @ \o tc_delta.arguments ELSE @]

RECURSIVE AssembleTcDeltas(_, _)
AssembleTcDeltas(tool_calls, tcs) ==
    IF tcs = <<>> THEN tool_calls
    ELSE AssembleTcDeltas(AssembleTcDelta(tool_calls, Head(tcs)), Tail(tcs))

Assemble(r, line) ==
    IF line.kind \in {"nodata", "badjson"} THEN [r EXCEPT !.malformed = TRUE]
    ELSE IF line.kind = "chunk" /\ line.has_choices
    THEN [content |-> IF line.content # None THEN Append(r.content, line.content)
                      ELSE r.content,
          tool_calls |-> IF line.tc_mode = "list"
                         THEN AssembleTcDeltas(r.tool_calls, line.tool_calls)
                         ELSE r.tool_calls,
          finish_reason |-> IF line.finish_reason # None THEN line.finish_reason
                            ELSE r.finish_reason,
          malformed |-> r.malformed,
          after_finish |-> r.after_finish \/ r.finish_reason # None]
    ELSE r

-----------------------------------------------------------------------------
(* The streaming translator: convert_openai_streaming_to_claude and        *)
(* convert_openai_streaming_to_claude_with_cancellation.                   *)

TrReq == 1       \* the request id of the streaming call being translated

\* response_converter.py:157 / 297.
text_block_index == 0

\* An output index that counts the tool blocks from text_block_index itself.
ClaudeIndexFromTextIndex(counter) == text_block_index + counter - 1

\* response_converter.py:219 / 392.
ClaudeIndex(counter) == text_block_index + counter

\* response_converter.py:196-203: a fresh accumulator; its claude_index is
\* None, written NoIndex.
NoIndex == -1
NewToolCall(tc_index) ==
    [tc_index |-> tc_index, id |-> None, name |-> None, args_buffer |-> <<>>,
     json_sent |-> FALSE, claude_index |-> NoIndex, started |-> FALSE]

HasKey(calls, tc_index) == \E k \in 1..Len(calls) : calls[k].tc_index = tc_index
KeyPos(calls, tc_index) == CHOOSE k \in 1..Len(calls) : calls[k].tc_index = tc_index

\* The start condition without its check of "started".
ShouldStartAgain(tool_call) ==
    Truthy(tool_call.id) /\ Truthy(tool_call.name)

\* response_converter.py:217 / 390.
ShouldStart(tool_call) ==
    Truthy(tool_call.id) /\ Truthy(tool_call.name) /\ ~tool_call.started

\* response_converter.py:226 / 399.
ShouldAppendArgs(tc_delta, tool_call) ==
    tc_delta.has_args /\ tool_call.started

\* The send condition without its check of "json_sent".
ShouldSendJsonAgain(tool_call) ==
    JsonLoadsOk(tool_call.args_buffer)

\* response_converter.py:230-236 / 403-409.
ShouldSendJson(tool_call) ==
    JsonLoadsOk(tool_call.args_buffer) /\ ~tool_call.json_sent

\* response_converter.py:242-249 / 415-422, with the initial value of 160 / 300.
StopReasonOf(finish_reason) ==
    IF finish_reason = "length" THEN "max_tokens"
    ELSE IF finish_reason \in {"tool_calls", "function_call"} THEN "tool_use"
    ELSE "end_turn"

\* response_converter.py:250: only the basic generator breaks on a finish reason.
BreaksOnFinish(v) == v = "basic"

\* response_converter.py:190 / 363: whether the tool-call loop is entered, and
\* whether entering it raises (iterating None is a TypeError).
EntersToolLoop(v, line) ==
    IF v = "basic" THEN line.tc_mode # "absent"
    ELSE line.tc_mode = "list" /\ Len(line.tool_calls) > 0
ToolLoopRaises(v, line) == EntersToolLoop(v, line) /\ line.tc_mode = "null"

\* response_converter.py:320-325: the cancellable generator reads the usage
\* object of a chunk; the basic one never does (its usage_data is line 272).
DictGet(v, default) == IF v = Absent THEN default ELSE v
UsageOf(usage) ==
    [input_tokens |-> DictGet(usage.input_tokens, DictGet(usage.prompt_tokens, 0)),
     output_tokens |-> DictGet(usage.output_tokens, DictGet(usage.completion_tokens, 0))]
ReadUsage(v, line, old) ==
    IF v = "cancel" /\ line.usage.present THEN UsageOf(line.usage) ELSE old

\* The body of the loop over delta["tool_calls"] for one tc_delta
\* (response_converter.py:191-238 / 364-411), on st = [counter, calls, evs].
ApplyTcDelta(st, tc_delta) ==
    LET calls0 == IF HasKey(st.calls, tc_delta.index) THEN st.calls
                  ELSE Append(st.calls, NewToolCall(tc_delta.index))
        k == KeyPos(calls0, tc_delta.index)
        tc0 == calls0[k]
        tc1 == [tc0 EXCEPT !.id = IF Truthy(tc_delta.id) THEN tc_delta.id ELSE @,
                           !.name = IF Truthy(tc_delta.name) THEN tc_delta.name ELSE @]
        start == ShouldStart(tc1)
        counter1 == IF start THEN st.counter + 1 ELSE st.counter
        tc2 == IF start
               THEN [tc1 EXCEPT !.claude_index = ClaudeIndex(counter1), !.started = TRUE]
               ELSE tc1
        evs1 == IF start
                THEN Append(st.evs, ToolBlockStart(tc2.claude_index, tc2.id, tc2.name))
                ELSE st.evs
        app == ShouldAppendArgs(tc_delta, tc2)
        tc3 == IF app THEN [tc2 EXCEPT !.args_buffer = @ \o tc_delta.arguments] ELSE tc2
        send == app /\ ShouldSendJson(tc3)
        tc4 == IF send THEN [tc3 EXCEPT !.json_sent = TRUE] ELSE tc3
        evs2 == IF send
                THEN Append(evs1, InputJsonDelta(tc3.claude_index, tc3.args_buffer))
                ELSE evs1
    IN [counter |-> counter1, calls |-> [calls0 EXCEPT ![k] = tc4], evs |-> evs2]

RECURSIVE ApplyTcDeltas(_, _)
ApplyTcDeltas(st, tcs) ==
    IF tcs = <<>> THEN st ELSE ApplyTcDeltas(ApplyTcDelta(st, Head(tcs)), Tail(tcs))

\* response_converter.py:265-274 / 452-460: the final events.
RECURSIVE ToolStops(_)
ToolStops(calls) ==
    IF calls = <<>> THEN <<>>
    ELSE (IF Head(calls).started /\ Head(calls).claude_index # NoIndex
          THEN <<BlockStop(Head(calls).claude_index)>> ELSE <<>>)
         \o ToolStops(Tail(calls))

\* Teardown with the message events ahead of the tool blocks' stops.
TeardownMessageFirst(calls, stop, usage) ==
    <<BlockStop(0), MessageDelta(stop, usage), MessageStop>> \o ToolStops(calls)

Teardown(calls, stop, usage) ==
    <<BlockStop(0)>> \o ToolStops(calls) \o <<MessageDelta(stop, usage), MessageStop>>

\* response_converter.py:252-263 / 424-450: what an exception raised inside the
\* loop becomes: "api_error" or "cancelled" (an error event is yielded and the
\* generator returns) or "raise" (the exception leaves the generator).
\* The basic generator with the except clauses of the cancellable one.
OnExceptionReraisesHttp(v, exc) ==
    IF exc.cls = "HTTPException"
    THEN (IF exc.status = 499 THEN "cancelled" ELSE "raise")
    ELSE "api_error"

\* The cancellable generator without its clause for status 499.
OnExceptionWithout499(v, exc) ==
    IF v = "basic" THEN "api_error"
    ELSE IF exc.cls = "HTTPException" THEN "raise" ELSE "api_error"

OnException(v, exc) ==
    IF v = "basic" THEN "api_error"
    ELSE IF exc.cls = "HTTPException"
         THEN (IF exc.status = 499 THEN "cancelled" ELSE "raise")
         ELSE "api_error"

\* The pass that emits a text delta only while no tool block has started.
ProcessChoiceTextBeforeTools(v, line, counter, calls, stop) ==
    LET evs0 == IF line.content # None /\ counter = 0
                THEN <<TextDelta(line.content)>> ELSE <<>>
        raises == ToolLoopRaises(v, line)
        st == IF EntersToolLoop(v, line) /\ ~raises
              THEN ApplyTcDeltas([counter |-> counter, calls |-> calls, evs |-> evs0],
                                 line.tool_calls)
              ELSE [counter |-> counter, calls |-> calls, evs |-> evs0]
        fin == ~raises /\ Truthy(line.finish_reason)
    IN [evs |-> st.evs, counter |-> st.counter, calls |-> st.calls,
        stop |-> IF fin THEN StopReasonOf(line.finish_reason) ELSE stop,
        raises |-> raises,
        brk |-> fin /\ BreaksOnFinish(v)]

\* One pass of the loop body for a line that is a chunk with choices
\* (response_converter.py:181-250 / 354-422): the events it yields, the new
\* locals, whether it raised and whether it left the loop.
ProcessChoice(v, line, counter, calls, stop) ==
    LET evs0 == IF line.content # None THEN <<TextDelta(line.content)>> ELSE <<>>
        raises == ToolLoopRaises(v, line)
        st == IF EntersToolLoop(v, line) /\ ~raises
              THEN ApplyTcDeltas([counter |-> counter, calls |-> calls, evs |-> evs0],
                                 line.tool_calls)
              ELSE [counter |-> counter, calls |-> calls, evs |-> evs0]
        fin == ~raises /\ Truthy(line.finish_reason)
    IN [evs |-> st.evs, counter |-> st.counter, calls |-> st.calls,
        stop |-> IF fin THEN StopReasonOf(line.finish_reason) ELSE stop,
        raises |-> raises,
        brk |-> fin /\ BreaksOnFinish(v)]

\* The loop body without its handler for json.JSONDecodeError: a payload
\* that is not JSON raises out of the loop.
ProcessLineBadJsonRaises(v, line, counter, calls, stop) ==
    IF line.kind = "done"
    THEN [evs |-> <<>>, counter |-> counter, calls |-> calls, stop |-> stop,
          raises |-> FALSE, brk |-> TRUE]
    ELSE IF line.kind = "chunk" /\ line.has_choices
    THEN ProcessChoice(v, line, counter, calls, stop)
    ELSE [evs |-> <<>>, counter |-> counter, calls |-> calls, stop |-> stop,
          raises |-> line.kind = "badjson", brk |-> FALSE]

\* One pass of the loop body for any line (response_converter.py:164-250 /
\* 311-422).  Blank lines, lines without the "data: " prefix, payloads that are
\* not JSON and chunks without choices fall through to the next line.
ProcessLine(v, line, counter, calls, stop) ==
    IF line.kind = "done"
    THEN [evs |-> <<>>, counter |-> counter, calls |-> calls, stop |-> stop,
          raises |-> FALSE, brk |-> TRUE]
    ELSE IF line.kind = "chunk" /\ line.has_choices
    THEN ProcessChoice(v, line, counter, calls, stop)
    ELSE [evs |-> <<>>, counter |-> counter, calls |-> calls, stop |-> stop,
          raises |-> FALSE, brk |-> FALSE]

\* client.py:259-264.
cancel_request(reqs, request_id) ==
    IF request_id \in DOMAIN reqs THEN [reqs EXCEPT ![request_id] = TRUE] ELSE reqs

\* response_converter.py:306: the check is made by the cancellable generator only.
ChecksDisconnect(v) == v = "cancel"

\* The same, with the final events after the error event.
EndByExceptionThenTeardown(e, evs) ==
    LET how == OnException(variant, e) IN
    /\ out' = IF how = "raise" THEN out \o evs
              ELSE out \o evs \o <<ErrorEvent(how)>>
                   \o Teardown(current_tool_calls, final_stop_reason, usage_data)
    /\ phase' = IF how = "raise" THEN "raised" ELSE "error"
    /\ loop_exc' = e

\* The generator ends after an exception e raised inside the loop.
EndByException(e, evs) ==
    LET how == OnException(variant, e) IN
    /\ out' = IF how = "raise" THEN out \o evs ELSE out \o evs \o <<ErrorEvent(how)>>
    /\ phase' = IF how = "raise" THEN "raised" ELSE "error"
    /\ loop_exc' = e

\* response_converter.py:150-154 / 290-294: the generator is started and yields
\* its initial events before it asks the upstream for anything.
TrBegin ==
    /\ phase = "start"
    /\ out' = out \o InitialEvents
    /\ phase' = "streaming"
    /\ UNCHANGED <<rsVars, rqVars, variant, tool_block_counter, current_tool_calls, final_stop_reason,
                   usage_data, lines_read, loop_exc, saw_disconnect, kmVars, clVars,
                   last_line, reply, auxVars>>

\* The upstream hands over one more line; disconnected is the answer of
\* http_request.is_disconnected() on its arrival.
TrLine(line, disconnected) ==
    /\ phase = "streaming"
    /\ lines_read < MaxLines
    /\ lines_read' = lines_read + 1
    /\ last_line' = Seen(line)
    /\ UNCHANGED <<rsVars, rqVars, variant, kmVars, call, auxVars>>
    /\ reply' = reply
    /\ IF ChecksDisconnect(variant) /\ disconnected
       THEN /\ active_requests' = cancel_request(active_requests, TrReq)
            /\ out' = out \o Teardown(current_tool_calls, final_stop_reason, usage_data)
            /\ phase' = "done"
            /\ saw_disconnect' = TRUE
            /\ UNCHANGED <<rsVars, rqVars, tool_block_counter, current_tool_calls, final_stop_reason,
                           usage_data, loop_exc>>
       ELSE LET u == IF line.kind = "chunk"
                     THEN ReadUsage(variant, line, usage_data) ELSE usage_data
                r == ProcessLine(variant, line, tool_block_counter,
                                 current_tool_calls, final_stop_reason)
            IN /\ UNCHANGED <<rsVars, rqVars, active_requests, saw_disconnect>>
               /\ tool_block_counter' = r.counter
               /\ current_tool_calls' = r.calls
               /\ final_stop_reason' = r.stop
               /\ usage_data' = u
               /\ IF r.raises
                  THEN EndByException(Exc("TypeError", 0), r.evs)
                  ELSE /\ loop_exc' = loop_exc
                       /\ IF r.brk
                          THEN /\ out' = out \o r.evs \o Teardown(r.calls, r.stop, u)
                               /\ phase' = "done"
                          ELSE /\ out' = out \o r.evs
                               /\ phase' = "streaming"

\* The upstream iterator is exhausted: the loop ends normally.
TrEndOfStream ==
    /\ phase = "streaming"
    /\ out' = out \o Teardown(current_tool_calls, final_stop_reason, usage_data)
    /\ phase' = "done"
    /\ UNCHANGED <<rsVars, rqVars, variant, tool_block_counter, current_tool_calls, final_stop_reason,
                   usage_data, lines_read, loop_exc, saw_disconnect, kmVars, clVars,
                   last_line, reply, auxVars>>

\* The upstream iterator raises e instead of handing over a line.
TrUpstreamRaises(e) ==
    /\ phase = "streaming"
    /\ EndByException(e, <<>>)
    /\ UNCHANGED <<rsVars, rqVars, variant, tool_block_counter, current_tool_calls, final_stop_reason,
                   usage_data, lines_read, saw_disconnect, kmVars, clVars,
                   last_line, reply, auxVars>>

-----------------------------------------------------------------------------
(* The key manager: APIKeyManager.  api_keys is the list <<1, ..., NumKeys>>, *)
(* current_index is 0-based as in the code, failed_keys is a function whose  *)
(* domain is the set of keys that have a failure time.                       *)

NumKeys == 2           \* len(api_keys)
CooldownPeriod == 1    \* cooldown_period, in ticks of the model's clock
MaxTime == 2           \* the clock runs from 0 to MaxTime

Keys == 1..NumKeys
NoKey == 0             \* get_next_key's None
api_keys(i) == i + 1   \* the key at 0-based position i

Put(f, k, v) == [x \in DOMAIN f \cup {k} |-> IF x = k THEN v ELSE f[x]]
Del(f, k) == [x \in DOMAIN f \ {k} |-> f[x]]

\* api_key_manager.py:39-44 and 85: a failure time older than the cooldown period.
Expired(fail_time, t) == t - fail_time > CooldownPeriod

\* api_key_manager.py:39-44.
EvictExpired(failed, t) ==
    [k \in {x \in DOMAIN failed : ~Expired(failed[x], t)} |-> failed[k]]

\* A cursor that is not moved.
NextIndexSame(index) == index

\* api_key_manager.py:51.
NextIndex(index) == (index + 1) % NumKeys

\* A test that takes every key.
AvailableAlways(failed, key) == TRUE

\* api_key_manager.py:53.
Available(failed, key) == key \notin DOMAIN failed

\* api_key_manager.py:48-61: the scan from the cursor; [key, index].
RECURSIVE ScanKeys(_, _, _)
ScanKeys(failed, index, attempts) ==
    IF attempts < NumKeys
    THEN LET key == api_keys(index)
             next == NextIndex(index)
         IN IF Available(failed, key)
            THEN [key |-> key, index |-> next]
            ELSE ScanKeys(failed, next, attempts + 1)
    ELSE [key |-> NoKey, index |-> index]

\* api_key_manager.py:28-61: [key, index, failed].
get_next_key(failed, index, t) ==
    LET f == EvictExpired(failed, t)
        r == ScanKeys(f, index, 0)
    IN [key |-> r.key, index |-> r.index, failed |-> f]

\* A mark that keeps the failure time a key already has.
mark_key_failed_keeps_first(failed, api_key, t) ==
    IF api_key \in DOMAIN failed THEN failed ELSE Put(failed, api_key, t)

\* api_key_manager.py:63-74.
mark_key_failed(failed, api_key, t) == Put(failed, api_key, t)

\* The count of the keys without a failure time.
get_available_key_count_never_failed(failed, t) ==
    Cardinality({k \in Keys : k \notin DOMAIN failed})

\* api_key_manager.py:76-88.
get_available_key_count(failed, t) ==
    Cardinality({k \in Keys : k \notin DOMAIN failed \/ Expired(failed[k], t)})

\* api_key_manager.py:126-130.
reset_all_failures(failed) == [k \in {} |-> 0]

\* A status that takes every key with a failure time to be in cooldown.
KeyStatusByMembership(failed, key, t) ==
    IF key \in DOMAIN failed
    THEN [index |-> key - 1, status |-> "cooldown",
          cooldown_remaining |-> CooldownPeriod - (t - failed[key])]
    ELSE [index |-> key - 1, status |-> "available", cooldown_remaining |-> Absent]

\* api_key_manager.py:101-122: the entry of one key in keys_status.
KeyStatus(failed, key, t) ==
    IF key \in DOMAIN failed /\ ~(t - failed[key] > CooldownPeriod)
    THEN [index |-> key - 1, status |-> "cooldown",
          cooldown_remaining |-> CooldownPeriod - (t - failed[key])]
    ELSE [index |-> key - 1, status |-> "available", cooldown_remaining |-> Absent]

\* api_key_manager.py:90-124.
get_status(failed, t) ==
    LET keys_status == [k \in Keys |-> KeyStatus(failed, k, t)] IN
    [total_keys |-> NumKeys,
     available_keys |-> Cardinality({k \in Keys : keys_status[k].status = "available"}),
     failed_keys |-> Cardinality({k \in Keys : keys_status[k].status = "cooldown"}),
     keys_status |-> keys_status]

-----------------------------------------------------------------------------
(* The dispatch client: OpenAIClient.create_chat_completion and             *)
(* create_chat_completion_stream.  A call is identified with its request id. *)
(* Between two awaits (or yields) the code of a coroutine runs atomically    *)
(* on the event loop, so one action runs a call from one suspension point   *)
(* to the next.                                                             *)

MaxChunks == 2         \* chunks one call may deliver to its consumer

\* The request ids of the logical calls the model runs in full; what other
\* calls do to the shared key manager are the Km steps below.
Reqs == {1}

\* What an upstream attempt may raise (client.py:7, 102-130, 192-220).  An
\* APIError without a status_code attribute has status Absent.
UpstreamErrors ==
    { Exc("AuthenticationError", 401), Exc("RateLimitError", 429),
      Exc("BadRequestError", 400), Exc("APIError", 404), Exc("APIError", 502),
      Exc("APIError", Absent), Exc("Exception", 0) }

\* client.py:93 / 181.
CancelledError == Exc("HTTPException", 499)

IdleCall ==
    [pc |-> "idle", kind |-> "plain", has_id |-> FALSE, attempts |-> 0,
     max_attempts |-> 0, last_exception |-> 0, api_key |-> NoKey, result |-> 0,
     keys_tried |-> <<>>, chunks |-> <<>>, cancels |-> 0, raised |-> NoExc]

\* Except clauses that take a bad request for a failure of the key.
ClassifyBadRequestRetried(e) ==
    IF e.cls \in {"AuthenticationError", "RateLimitError"}
    THEN [retry |-> TRUE, mark |-> TRUE,
          status |-> IF e.cls = "AuthenticationError" THEN 401 ELSE 429]
    ELSE IF e.cls = "APIError"
    THEN LET status_code == DictGet(e.status, 500) IN
         IF status_code >= 500
         THEN [retry |-> TRUE, mark |-> TRUE, status |-> status_code]
         ELSE [retry |-> FALSE, mark |-> FALSE, status |-> status_code]
    ELSE [retry |-> TRUE, mark |-> TRUE, status |-> 500]

\* Except clauses that retry after an authentication or rate-limit error
\* without marking the key.
ClassifyAuthUnmarked(e) ==
    IF e.cls \in {"AuthenticationError", "RateLimitError"}
    THEN [retry |-> TRUE, mark |-> FALSE,
          status |-> IF e.cls = "AuthenticationError" THEN 401 ELSE 429]
    ELSE IF e.cls = "BadRequestError"
    THEN [retry |-> FALSE, mark |-> FALSE, status |-> 400]
    ELSE IF e.cls = "APIError"
    THEN LET status_code == DictGet(e.status, 500) IN
         IF status_code >= 500
         THEN [retry |-> TRUE, mark |-> TRUE, status |-> status_code]
         ELSE [retry |-> FALSE, mark |-> FALSE, status |-> status_code]
    ELSE [retry |-> TRUE, mark |-> TRUE, status |-> 500]

\* client.py:102-130 / 192-220: the except clauses, in order.  retry: the loop
\* continues; mark: the key is marked failed; status: of the HTTPException that
\* is raised or remembered as last_exception.
Classify(e) ==
    IF e.cls \in {"AuthenticationError", "RateLimitError"}
    THEN [retry |-> TRUE, mark |-> TRUE,
          status |-> IF e.cls = "AuthenticationError" THEN 401 ELSE 429]
    ELSE IF e.cls = "BadRequestError"
    THEN [retry |-> FALSE, mark |-> FALSE, status |-> 400]
    ELSE IF e.cls = "APIError"
    THEN LET status_code == DictGet(e.status, 500) IN
         IF status_code >= 500
         THEN [retry |-> TRUE, mark |-> TRUE, status |-> status_code]
         ELSE [retry |-> FALSE, mark |-> FALSE, status |-> status_code]
    ELSE [retry |-> TRUE, mark |-> TRUE, status |-> 500]

\* A loop exit that always raises the pool-exhausted error.
RaiseAlways503(c) == [c EXCEPT !.pc = "ended", !.result = 503]

\* client.py:61-63, 133-135 / 160-162, 223-225.
RaiseLastOr503(c) ==
    [c EXCEPT !.pc = "ended",
              !.result = IF c.last_exception # 0 THEN c.last_exception ELSE 503]

\* client.py:56-63 / 155-162: the head of the retry loop, up to the start of
\* the next upstream attempt; [call, index, failed].
LoopHead(c, index, failed, t) ==
    IF c.attempts < c.max_attempts
    THEN LET g == get_next_key(failed, index, t) IN
         [call |-> IF g.key = NoKey
                   THEN RaiseLastOr503(c)
                   ELSE [c EXCEPT !.pc = "await", !.api_key = g.key,
                                  !.keys_tried = Append(@, g.key)],
          index |-> g.index, failed |-> g.failed]
    ELSE [call |-> RaiseLastOr503(c), index |-> index, failed |-> failed]

\* An except clause that retries without counting the attempt.
HandleExceptionUncounted(c, e, index, failed, t) ==
    LET h == Classify(e) IN
    IF h.retry
    THEN LoopHead([c EXCEPT !.last_exception = h.status, !.raised = e],
                  index,
                  IF h.mark THEN mark_key_failed(failed, c.api_key, t) ELSE failed,
                  t)
    ELSE [call |-> [c EXCEPT !.pc = "ended", !.result = h.status, !.raised = e],
          index |-> index, failed |-> failed]

\* client.py:102-135 / 192-225: exception e was raised inside the try of an
\* attempt of c; [call, index, failed].
HandleException(c, e, index, failed, t) ==
    LET h == Classify(e) IN
    IF h.retry
    THEN LoopHead([c EXCEPT !.attempts = @ + 1, !.last_exception = h.status,
                            !.raised = e],
                  index,
                  IF h.mark THEN mark_key_failed(failed, c.api_key, t) ELSE failed,
                  t)
    ELSE [call |-> [c EXCEPT !.pc = "ended", !.result = h.status, !.raised = e],
          index |-> index, failed |-> failed]

\* client.py:137-140 / 227-230: the finally clause, run when the call has
\* ended or its generator has been closed.
Finally(reqs, r, c) ==
    IF c.pc \in {"ended", "closed"} /\ c.has_id /\ r \in DOMAIN reqs
    THEN Del(reqs, r) ELSE reqs

\* The call of request r moves on with the result x = [call, index, failed].
Continue(r, x, reqs) ==
    /\ call' = [call EXCEPT ![r] = x.call]
    /\ current_index' = x.index
    /\ failed_keys' = x.failed
    /\ active_requests' = Finally(reqs, r, x.call)

\* client.py:47-63 / 146-162: the call starts and runs to its first attempt.
ClStart(r, kind, has_id) ==
    /\ call[r].pc = "idle"
    /\ LET c == [IdleCall EXCEPT
                   !.kind = kind, !.has_id = has_id,
                   !.max_attempts = get_available_key_count(failed_keys, now)]
           reqs == IF has_id THEN Put(active_requests, r, FALSE) ELSE active_requests
       IN Continue(r, LoopHead(c, current_index, failed_keys, now), reqs)
    /\ UNCHANGED <<rsVars, rqVars, trVars, last_line, reply, auxVars, now>>

\* client.py:74, 179-180: whether the call sees its cancel event set.
SeesCancel(r) ==
    call[r].has_id /\ r \in DOMAIN active_requests /\ active_requests[r]

\* client.py:77-100: the upstream call of a plain attempt completes first.
ClPlainReturns(r) ==
    /\ call[r].pc = "await" /\ call[r].kind = "plain"
    /\ ~SeesCancel(r)
    /\ Continue(r, [call |-> [call[r] EXCEPT !.pc = "ended", !.result = 200],
                    index |-> current_index, failed |-> failed_keys],
                active_requests)
    /\ UNCHANGED <<rsVars, rqVars, trVars, last_line, reply, auxVars, now>>

\* client.py:91-93: the cancel event wins the race of a plain attempt.
ClPlainCancelled(r) ==
    /\ call[r].pc = "await" /\ call[r].kind = "plain"
    /\ SeesCancel(r)
    /\ Continue(r, HandleException([call[r] EXCEPT !.cancels = @ + 1], CancelledError,
                                   current_index, failed_keys, now),
                active_requests)
    /\ UNCHANGED <<rsVars, rqVars, trVars, last_line, reply, auxVars, now>>

\* client.py:95-97, 175-177: the upstream raises e, while the call is awaited
\* or while the stream is iterated.
ClAttemptFails(r, e) ==
    /\ call[r].pc \in {"await", "iter"}
    /\ call[r].kind = "plain" => ~SeesCancel(r)
    /\ Continue(r, HandleException(call[r], e, current_index, failed_keys, now),
                active_requests)
    /\ UNCHANGED <<rsVars, rqVars, trVars, last_line, reply, auxVars, now>>

\* client.py:175: the streaming completion is created.
ClStreamOpens(r) ==
    /\ call[r].pc = "await" /\ call[r].kind = "stream"
    /\ call' = [call EXCEPT ![r].pc = "iter"]
    /\ UNCHANGED <<rsVars, rqVars, trVars, last_line, reply, auxVars, kmVars, active_requests>>

\* client.py:177-186: the upstream stream hands over a chunk.
ClChunk(r) ==
    /\ call[r].pc = "iter"
    /\ Len(call[r].chunks) < MaxChunks
    /\ IF SeesCancel(r)
       THEN Continue(r, HandleException([call[r] EXCEPT !.cancels = @ + 1],
                                        CancelledError, current_index, failed_keys, now),
                     active_requests)
       ELSE /\ call' = [call EXCEPT ![r].chunks = Append(@, Len(call[r].keys_tried))]
            /\ UNCHANGED <<rsVars, rqVars, kmVars, active_requests>>
    /\ UNCHANGED <<rsVars, rqVars, trVars, last_line, reply, auxVars, now>>

\* client.py:177, 188-189: the upstream stream is exhausted; the generator
\* yields "data: [DONE]" and is suspended there.
ClStreamEnds(r) ==
    /\ call[r].pc = "iter"
    /\ call' = [call EXCEPT ![r].pc = "yield_done"]
    /\ UNCHANGED <<rsVars, rqVars, trVars, last_line, reply, auxVars, kmVars, active_requests>>

\* client.py:190, 227-230: the consumer asks for the item after "[DONE]"; the
\* generator returns through its finally clause.
ClStreamReturns(r) ==
    /\ call[r].pc = "yield_done"
    /\ Continue(r, [call |-> [call[r] EXCEPT !.pc = "ended", !.result = 200],
                    index |-> current_index, failed |-> failed_keys],
                active_requests)
    /\ UNCHANGED <<rsVars, rqVars, trVars, last_line, reply, auxVars, now>>

\* response_converter.py:168, 250, 309, 315: the consumer leaves its
\* "async for" over the generator by break, after an item the current
\* attempt handed it; the generator stays suspended at its yield
\* (client.py:186, 189).
ClConsumerStops(r) ==
    /\ \/ /\ call[r].pc = "iter"
          /\ call[r].chunks # <<>>
          /\ call[r].chunks[Len(call[r].chunks)] = Len(call[r].keys_tried)
       \/ call[r].pc = "yield_done"
    /\ call' = [call EXCEPT ![r].pc = "abandoned"]
    /\ UNCHANGED <<rsVars, rqVars, trVars, last_line, reply, auxVars, kmVars, active_requests>>

\* The interpreter finalizes the abandoned generator: GeneratorExit is raised
\* at its yield, no except clause of client.py:192-220 catches it, and the
\* finally clause runs (client.py:227-230).
ClGeneratorClosed(r) ==
    /\ call[r].pc = "abandoned"
    /\ Continue(r, [call |-> [call[r] EXCEPT !.pc = "closed"],
                    index |-> current_index, failed |-> failed_keys],
                active_requests)
    /\ UNCHANGED <<rsVars, rqVars, trVars, last_line, reply, auxVars, now>>

\* client.py:259-264, called by a request handler for a call in progress.
ClCancelRequest(r) ==
    /\ r \in DOMAIN active_requests /\ ~active_requests[r]
    /\ active_requests' = cancel_request(active_requests, r)
    /\ UNCHANGED <<rsVars, rqVars, trVars, last_line, reply, auxVars, kmVars, call>>

\* Other request handlers use the shared key manager at the same time: each
\* of its operations runs under the manager's lock (api_key_manager.py:35, 71,
\* 128), so each is one step.
KmGetNextKey ==
    /\ LET g == get_next_key(failed_keys, current_index, now) IN
         /\ current_index' = g.index
         /\ failed_keys' = g.failed
    /\ UNCHANGED <<rsVars, rqVars, trVars, last_line, reply, auxVars, clVars, now>>

KmMarkKeyFailed(k) ==
    /\ failed_keys' = mark_key_failed(failed_keys, k, now)
    /\ UNCHANGED <<rsVars, rqVars, trVars, last_line, reply, auxVars, clVars, now, current_index>>

KmResetAllFailures ==
    /\ failed_keys' = reset_all_failures(failed_keys)
    /\ UNCHANGED <<rsVars, rqVars, trVars, last_line, reply, auxVars, clVars, now, current_index>>

\* time.time() advances.
Tick ==
    /\ now < MaxTime
    /\ now' = now + 1
    /\ UNCHANGED <<rsVars, rqVars, trVars, last_line, reply, auxVars, clVars, current_index, failed_keys>>

-----------------------------------------------------------------------------
(* The two streaming generators side by side: one run of each, both fed    *)
(* the same upstream lines; the client stays connected and the upstream    *)
(* raises nothing.  A run is the record of a generator's locals.           *)

Variants == {"basic", "cancel"}

\* response_converter.py:156-160 / 296-301.
IdleRun ==
    [phase |-> "start", out |-> <<>>, counter |-> 0, calls |-> <<>>,
     stop |-> "end_turn", usage |-> ZeroUsage]

\* response_converter.py:150-154 / 290-294.
RunBegin(s) == [s EXCEPT !.out = @ \o InitialEvents, !.phase = "streaming"]

\* response_converter.py:164-263 / 311-450: generator v takes one line.
RunLine(v, s, line) ==
    LET u == IF line.kind = "chunk" THEN ReadUsage(v, line, s.usage) ELSE s.usage
        r == ProcessLine(v, line, s.counter, s.calls, s.stop)
        how == OnException(v, Exc("TypeError", 0))
    IN [phase |-> IF r.raises THEN (IF how = "raise" THEN "raised" ELSE "error")
                  ELSE IF r.brk THEN "done" ELSE "streaming",
        out |-> s.out \o r.evs \o
                (IF r.raises THEN (IF how = "raise" THEN <<>> ELSE <<ErrorEvent(how)>>)
                 ELSE IF r.brk THEN Teardown(r.calls, r.stop, u) ELSE <<>>),
        counter |-> r.counter, calls |-> r.calls, stop |-> r.stop, usage |-> u]

\* response_converter.py:265-274 / 452-460: the upstream is exhausted.
RunEnd(s) ==
    [s EXCEPT !.out = @ \o Teardown(s.calls, s.stop, s.usage), !.phase = "done"]

PairBegin ==
    /\ \A v \in Variants : pair[v].phase = "start"
    /\ pair' = [v \in Variants |-> RunBegin(pair[v])]
    /\ UNCHANGED <<rsVars, rqVars, trVars, kmVars, clVars, last_line, reply, lock, handler, key_log>>

\* The upstream hands the line over to each generator that still iterates.
PairTakes(line) ==
    /\ \E v \in Variants : pair[v].phase = "streaming"
    /\ lines_read < MaxLines
    /\ lines_read' = lines_read + 1
    /\ last_line' = Seen(line)
    /\ pair' = [v \in Variants |->
                  IF pair[v].phase = "streaming" THEN RunLine(v, pair[v], line)
                  ELSE pair[v]]
    /\ UNCHANGED <<rsVars, rqVars, variant, phase, out, tool_block_counter, current_tool_calls,
                   final_stop_reason, usage_data, loop_exc, saw_disconnect,
                   kmVars, clVars, lock, handler, key_log>>

PairLine(line) == PairTakes(line) /\ reply' = reply

\* The same, the line being added to the message assembled from the stream.
ReplyLine(line) == PairTakes(line) /\ reply' = Assemble(reply, line)

PairEndOfStream ==
    /\ \E v \in Variants : pair[v].phase = "streaming"
    /\ pair' = [v \in Variants |->
                  IF pair[v].phase = "streaming" THEN RunEnd(pair[v]) ELSE pair[v]]
    /\ UNCHANGED <<rsVars, rqVars, trVars, kmVars, clVars, last_line, reply, lock, handler, key_log>>

-----------------------------------------------------------------------------
(* The key manager under concurrent request handlers.  Each handler calls  *)
(* one method at a time; a method runs under self.lock from its first      *)
(* statement to its return.  get_next_key is followed statement by         *)
(* statement; the other methods are one assignment or one read-only pass.  *)

Handlers == {1, 2}
NoHandler == 0

EmptyMap == [k \in {} |-> 0]

IdleHandler ==
    [pc |-> "idle", op |-> "", current_time |-> 0, attempts |-> 0, key |-> NoKey,
     ret |-> 0, pre |-> [index |-> 0, failed |-> EmptyMap], clean |-> FALSE,
     advanced |-> 0]

\* Entering a method without taking the lock.
AcquiresUnlocked(h) == TRUE

\* api_key_manager.py:35, 71, 78, 92, 128: "with self.lock".
CanAcquire(h) == lock = NoHandler

\* The method of handler h returns ret: its locals are gone.
Returned(h, ret) ==
    [IdleHandler EXCEPT !.pc = "returned", !.op = handler[h].op, !.ret = ret,
                        !.clean = handler[h].clean, !.advanced = handler[h].advanced]

\* The whole of a method that is one step: handler h ran op and got ret.
Ran(op, ret) == [IdleHandler EXCEPT !.pc = "returned", !.op = op, !.ret = ret]

\* The last NumKeys - 1 keys of log, followed by key.
Logged(log, key) ==
    Append(IF Len(log) < NumKeys THEN log ELSE Tail(log), key)

\* api_key_manager.py:35-48: the lock is taken, the time is read and the
\* expired entries are evicted.
HGetNextKeyEnter(h) ==
    /\ handler[h].pc = "idle"
    /\ CanAcquire(h)
    /\ lock' = h
    /\ failed_keys' = EvictExpired(failed_keys, now)
    /\ handler' = [handler EXCEPT ![h] =
          [IdleHandler EXCEPT !.pc = "scan", !.op = "get_next_key",
                              !.current_time = now,
                              !.pre = [index |-> current_index, failed |-> failed_keys],
                              !.clean = (failed_keys = EmptyMap)]]
    /\ UNCHANGED <<rsVars, rqVars, trVars, clVars, last_line, reply, pair, key_log, current_index, now>>

\* api_key_manager.py:49-50 and 59-61: the loop condition, then either the
\* key under the cursor is read or None is returned.
HScanRead(h) ==
    /\ handler[h].pc = "scan"
    /\ IF handler[h].attempts < NumKeys
       THEN /\ handler' = [handler EXCEPT ![h].pc = "advance",
                                          ![h].key = api_keys(current_index)]
            /\ UNCHANGED <<rsVars, rqVars, lock, key_log>>
       ELSE /\ handler' = [handler EXCEPT ![h] = Returned(h, NoKey)]
            /\ lock' = NoHandler
            /\ key_log' = <<>>
    /\ UNCHANGED <<rsVars, rqVars, trVars, clVars, kmVars, last_line, reply, pair>>

\* api_key_manager.py:51-57: the cursor is advanced, then the key is returned
\* if it is not in failed_keys.
HScanAdvance(h) ==
    /\ handler[h].pc = "advance"
    /\ current_index' = NextIndex(current_index)
    /\ IF Available(failed_keys, handler[h].key)
       THEN /\ handler' = [handler EXCEPT ![h] =
                  [Returned(h, handler[h].key) EXCEPT !.advanced = @ + 1]]
            /\ lock' = NoHandler
            /\ key_log' = IF handler[h].clean THEN Logged(key_log, handler[h].key)
                          ELSE <<>>
       ELSE /\ handler' = [handler EXCEPT ![h].pc = "scan",
                                          ![h].attempts = @ + 1,
                                          ![h].advanced = @ + 1]
            /\ UNCHANGED <<rsVars, rqVars, lock, key_log>>
    /\ UNCHANGED <<rsVars, rqVars, trVars, clVars, last_line, reply, pair, failed_keys, now>>

\* api_key_manager.py:63-74.
HMarkKeyFailed(h, k) ==
    /\ handler[h].pc = "idle"
    /\ CanAcquire(h)
    /\ failed_keys' = mark_key_failed(failed_keys, k, now)
    /\ handler' = [handler EXCEPT ![h] =
          [Ran("mark_key_failed", 0) EXCEPT
              !.key = k,
              !.pre = [index |-> current_index, failed |-> failed_keys]]]
    /\ key_log' = <<>>
    /\ UNCHANGED <<rsVars, rqVars, trVars, clVars, last_line, reply, pair, lock, current_index, now>>

\* api_key_manager.py:126-130.
HResetAllFailures(h) ==
    /\ handler[h].pc = "idle"
    /\ CanAcquire(h)
    /\ failed_keys' = reset_all_failures(failed_keys)
    /\ handler' = [handler EXCEPT ![h] = Ran("reset_all_failures", 0)]
    /\ key_log' = <<>>
    /\ UNCHANGED <<rsVars, rqVars, trVars, clVars, last_line, reply, pair, lock, current_index, now>>

\* api_key_manager.py:76-88.
HGetAvailableKeyCount(h) ==
    /\ handler[h].pc = "idle"
    /\ CanAcquire(h)
    /\ handler' = [handler EXCEPT ![h] =
          Ran("get_available_key_count", get_available_key_count(failed_keys, now))]
    /\ UNCHANGED <<rsVars, rqVars, trVars, clVars, kmVars, last_line, reply, pair, lock, key_log>>

\* api_key_manager.py:90-124.
HGetStatus(h) ==
    /\ handler[h].pc = "idle"
    /\ CanAcquire(h)
    /\ handler' = [handler EXCEPT ![h] = Ran("get_status", get_status(failed_keys, now))]
    /\ UNCHANGED <<rsVars, rqVars, trVars, clVars, kmVars, last_line, reply, pair, lock, key_log>>

\* The handlers whose calls have returned go on to their next calls.
HNextCalls ==
    /\ \A h \in Handlers : handler[h].pc \in {"idle", "returned"}
    /\ \E h \in Handlers : handler[h].pc = "returned"
    /\ handler' = [h \in Handlers |-> IdleHandler]
    /\ UNCHANGED <<rsVars, rqVars, trVars, clVars, kmVars, last_line, reply, pair, lock, key_log>>

-----------------------------------------------------------------------------
(* The request converter: a function from a Claude request and the cache   *)
(* flag of the configuration to the messages of the OpenAI request.  A     *)
(* text is a sequence of strings, so that join and strip are computed.     *)

MaxRequestSize == 4    \* messages plus content blocks of one Claude request

\* A Claude content block.  ok: for an image, its source is a base64 dict
\* with media_type and data; for a tool_result, its content is not None.
Block(type, text, id, ok) == [type |-> type, text |-> text, id |-> id, ok |-> ok]

TextBlock(t) == Block("text", t, "", TRUE)
ImageBlock(ok) == Block("image", <<>>, "", ok)
\* A tool_use block with name f and input {}.
ToolUseBlock(id) == Block("tool_use", <<"f">>, id, TRUE)
ToolResultBlock(id, content, ok) == Block("tool_result", content, id, ok)

Texts == {<<"a">>, <<"b">>}

UserBlocks ==
    {TextBlock(t) : t \in Texts} \cup {ImageBlock(TRUE), ImageBlock(FALSE)}
        \cup {ToolResultBlock("u1", <<"r">>, TRUE), ToolResultBlock("u2", <<>>, FALSE)}

AssistantBlocks ==
    {TextBlock(t) : t \in Texts} \cup {ImageBlock(TRUE)}
        \cup {ToolUseBlock("u1"), ToolUseBlock("u2")}

\* A Claude message: content is a string (is_str) or a list of blocks.
ClaudeMessage(role, is_str, text, blocks) ==
    [role |-> role, is_str |-> is_str, text |-> text, blocks |-> blocks]

\* The messages that count for size: one for the message, one per block.
MessagesOfSize(size) ==
    (IF size = 1
     THEN {ClaudeMessage(role, TRUE, <<"a">>, <<>>) : role \in {"user", "assistant"}}
     ELSE {})
    \cup {ClaudeMessage("user", FALSE, <<>>, blocks) :
             blocks \in [1..(size - 1) -> UserBlocks]}
    \cup {ClaudeMessage("assistant", FALSE, <<>>, blocks) :
             blocks \in [1..(size - 1) -> AssistantBlocks]}

RECURSIVE MessageListsOfSize(_)
MessageListsOfSize(size) ==
    IF size = 0 THEN {<<>>}
    ELSE UNION {{<<m>> \o rest : m \in MessagesOfSize(first),
                                  rest \in MessageListsOfSize(size - first)} :
                first \in 1..size}

\* claude_request.system: None, or a string.
NoSystem == [present |-> FALSE, text |-> <<>>]
Systems == {NoSystem, [present |-> TRUE, text |-> <<" ", "s">>],
            [present |-> TRUE, text |-> <<" ">>]}

\* claude_request.max_tokens and the two limits of the configuration are
\* integers of 0..MaxTokens; DefaultTokens is a requested value, and
\* DefaultMinTokens < DefaultMaxTokens the limits, of the requests whose
\* messages are under study.
MaxTokens == 3
DefaultTokens == 1
DefaultMinTokens == 1
DefaultMaxTokens == 2

ClaudeRequestsOf(sizes, tokens) ==
    {[messages |-> messages, system |-> system, max_tokens |-> max_tokens] :
        messages \in UNION {MessageListsOfSize(size) : size \in sizes},
        system \in Systems,
        max_tokens \in tokens}

ClaudeRequests == ClaudeRequestsOf(1..MaxRequestSize, {DefaultTokens})

\* The content of an OpenAI message: a string, a list of parts, or None.
StrContent(t) == [kind |-> "str", text |-> t, parts |-> <<>>]
ListContent(parts) == [kind |-> "list", text |-> <<>>, parts |-> parts]
NoneContent == [kind |-> "none", text |-> <<>>, parts |-> <<>>]

\* A part of a list content; cache_control: the part carries
\* "cache_control": {"type": "ephemeral"}.
Part(type, text) == [type |-> type, text |-> text, cache_control |-> FALSE]

\* An OpenAI message without tool_call_id and without tool_calls.
Message(role, content) ==
    [role |-> role, content |-> content, tool_call_id |-> None,
     has_tool_calls |-> FALSE, tool_calls |-> <<>>]

\* "".join(texts)
RECURSIVE Join(_)
Join(texts) == IF texts = <<>> THEN <<>> ELSE Head(texts) \o Join(Tail(texts))

\* str.strip()
RECURSIVE LStrip(_)
LStrip(t) == IF t # <<>> /\ Head(t) = " " THEN LStrip(Tail(t)) ELSE t

RECURSIVE RStrip(_)
RStrip(t) ==
    IF t # <<>> /\ t[Len(t)] = " " THEN RStrip(SubSeq(t, 1, Len(t) - 1)) ELSE t

Strip(t) == RStrip(LStrip(t))

IsToolResult(part) == part.type = "tool_result"
IsToolUse(part) == part.type = "tool_use"
IsTextOrImage(part) == part.type \in {"text", "image"}
IsText(part) == part.type = "text"

\* request_converter.py:221-239: the parts the blocks convert to.
RECURSIVE ConvertParts(_)
ConvertParts(content_blocks) ==
    IF content_blocks = <<>> THEN <<>>
    ELSE LET part == Head(content_blocks) IN
         (IF part.type = "text" THEN <<Part("text", part.text)>>
          ELSE IF part.type = "image" /\ part.ok THEN <<Part("image_url", <<>>)>>
          ELSE <<>>)
         \o ConvertParts(Tail(content_blocks))

convert_content_blocks_first_text(content_blocks) ==
    IF content_blocks = <<>> THEN StrContent(<<>>)
    ELSE LET openai_content == ConvertParts(content_blocks) IN
         IF Len(openai_content) >= 1 /\ openai_content[1].type = "text"
         THEN StrContent(openai_content[1].text)
         ELSE ListContent(openai_content)

\* request_converter.py:216-246.
convert_content_blocks_to_openai(content_blocks) ==
    IF content_blocks = <<>> THEN StrContent(<<>>)
    ELSE LET openai_content == ConvertParts(content_blocks) IN
         IF Len(openai_content) = 1 /\ openai_content[1].type = "text"
         THEN StrContent(openai_content[1].text)
         ELSE ListContent(openai_content)

\* request_converter.py:249-255, for a content that is None or a string.
parse_tool_result_content(part) == IF part.ok THEN part.text ELSE <<>>

\* request_converter.py:44-51.
ToolMessage(tool_message) ==
    [Message("tool", StrContent(parse_tool_result_content(tool_message)))
        EXCEPT !.tool_call_id = tool_message.id]

\* A user message whose blocks are converted in the order they come in, the
\* text and image blocks first.
ConvertUserBlocksUserFirst(blocks) ==
    LET tool_messages == SelectSeq(blocks, IsToolResult)
        non_tool_messages == SelectSeq(blocks, IsTextOrImage)
    IN (IF non_tool_messages # <<>>
        THEN <<Message("user", convert_content_blocks_to_openai(non_tool_messages))>>
        ELSE <<>>)
       \o [i \in 1..Len(tool_messages) |-> ToolMessage(tool_messages[i])]

\* request_converter.py:31-57: a user message with a list of blocks.
ConvertUserBlocks(blocks) ==
    LET tool_messages == SelectSeq(blocks, IsToolResult)
        non_tool_messages == SelectSeq(blocks, IsTextOrImage)
    IN [i \in 1..Len(tool_messages) |-> ToolMessage(tool_messages[i])]
       \o (IF non_tool_messages # <<>>
           THEN <<Message("user", convert_content_blocks_to_openai(non_tool_messages))>>
           ELSE <<>>)

\* request_converter.py:83-92: json.dumps of the input {} is "{}".
ToolCall(tool_message) ==
    [id |-> tool_message.id, type |-> "function", name |-> tool_message.text,
     arguments |-> "{}"]

\* An assistant message that always carries the tool_calls field.
ConvertAssistantBlocksWithField(blocks) ==
    LET tool_messages == SelectSeq(blocks, IsToolUse)
        non_tool_messages == SelectSeq(blocks, IsTextOrImage)
        text_blocks == SelectSeq(non_tool_messages, IsText)
        content_parts == [i \in 1..Len(text_blocks) |-> text_blocks[i].text]
        content == IF content_parts # <<>> THEN StrContent(Join(content_parts))
                   ELSE NoneContent
        tool_calls == [i \in 1..Len(tool_messages) |-> ToolCall(tool_messages[i])]
    IN <<[Message("assistant", content) EXCEPT !.has_tool_calls = TRUE,
                                                !.tool_calls = tool_calls]>>

\* request_converter.py:59-102: an assistant message with a list of blocks.
ConvertAssistantBlocks(blocks) ==
    LET tool_messages == SelectSeq(blocks, IsToolUse)
        non_tool_messages == SelectSeq(blocks, IsTextOrImage)
        text_blocks == SelectSeq(non_tool_messages, IsText)
        content_parts == [i \in 1..Len(text_blocks) |-> text_blocks[i].text]
        content == IF content_parts # <<>> THEN StrContent(Join(content_parts))
                   ELSE NoneContent
        tool_calls == [i \in 1..Len(tool_messages) |-> ToolCall(tool_messages[i])]
    IN <<[Message("assistant", content) EXCEPT !.has_tool_calls = (tool_calls # <<>>),
                                                !.tool_calls = tool_calls]>>

\* request_converter.py:24-102: the body of the loop over the messages.
ConvertMessage(anthropic_message) ==
    IF anthropic_message.is_str
    THEN <<Message(anthropic_message.role, StrContent(anthropic_message.text))>>
    ELSE IF anthropic_message.role = "user"
    THEN ConvertUserBlocks(anthropic_message.blocks)
    ELSE IF anthropic_message.role = "assistant"
    THEN ConvertAssistantBlocks(anthropic_message.blocks)
    ELSE <<>>

RECURSIVE ConvertMessages(_)
ConvertMessages(messages) ==
    IF messages = <<>> THEN <<>>
    ELSE ConvertMessage(Head(messages)) \o ConvertMessages(Tail(messages))

\* request_converter.py:104-137: the system message goes first.
WithSystem(openai_messages, system, cache) ==
    IF system.present /\ system.text # <<>> /\ Strip(system.text) # <<>>
    THEN <<Message("system",
                   IF cache
                   THEN ListContent(<<[Part("text", Strip(system.text))
                                          EXCEPT !.cache_control = TRUE]>>)
                   ELSE StrContent(Strip(system.text)))>> \o openai_messages
    ELSE openai_messages

\* request_converter.py:157: the text of the synthesized part.
Placeholder == <<"...">>

\* request_converter.py:146-160: the body of the loop over the last two user
\* messages.
AddCacheControl(content) ==
    LET c == IF content.kind = "str"
             THEN ListContent(<<Part("text", content.text)>>)
             ELSE content
        text_parts == {j \in 1..Len(c.parts) : c.parts[j].type = "text"}
    IN IF c.kind # "list" THEN c
       ELSE IF text_parts # {}
       THEN LET last == CHOOSE j \in text_parts : \A k \in text_parts : k <= j
            IN ListContent([c.parts EXCEPT ![last].cache_control = TRUE])
       ELSE ListContent(Append(c.parts,
                               [Part("text", Placeholder) EXCEPT !.cache_control = TRUE]))

UserPositions(openai_messages) ==
    {i \in 1..Len(openai_messages) : openai_messages[i].role = "user"}

\* The positions of all the user messages.
LastTwoAll(openai_messages) == UserPositions(openai_messages)

\* request_converter.py:142-143: user_messages[-2:].
LastTwo(openai_messages) ==
    LET user_messages == UserPositions(openai_messages) IN
    {i \in user_messages : Cardinality({j \in user_messages : j > i}) < 2}

\* request_converter.py:139-160.
AddCacheControls(openai_messages) ==
    [i \in 1..Len(openai_messages) |->
        IF i \in LastTwo(openai_messages)
        THEN [openai_messages[i] EXCEPT !.content = AddCacheControl(@)]
        ELSE openai_messages[i]]

\* Python's max and min of two integers.
max(a, b) == IF a >= b THEN a ELSE b
min(a, b) == IF a <= b THEN a ELSE b

ClampMaxTokensMinLast(requested, min_limit, max_limit) ==
    max(min(requested, max_limit), min_limit)

\* request_converter.py:166-169: the max_tokens of the converted request.
ClampMaxTokens(requested, min_limit, max_limit) ==
    min(max(requested, min_limit), max_limit)

\* request_converter.py:11-172: the messages and the max_tokens of the
\* converted request.
convert_claude_to_openai(request, cache, min_limit, max_limit) ==
    LET openai_messages ==
            WithSystem(ConvertMessages(request.messages), request.system, cache)
    IN [converted |-> TRUE,
        messages |-> IF cache THEN AddCacheControls(openai_messages)
                     ELSE openai_messages,
        max_tokens |-> ClampMaxTokens(request.max_tokens, min_limit, max_limit)]

NoRequest == [converted |-> FALSE, messages |-> <<>>, max_tokens |-> 0]

\* request_converter.py:11-214: the request is converted.
RqConvert ==
    /\ ~openai_request.converted
    /\ openai_request' = convert_claude_to_openai(claude_request, supports_prompt_cache,
                                                  min_tokens_limit, max_tokens_limit)
    /\ UNCHANGED <<trVars, kmVars, clVars, last_line, reply, auxVars, rsVars, claude_request,
                   supports_prompt_cache, min_tokens_limit, max_tokens_limit>>

-----------------------------------------------------------------------------
(* The response converter: convert_openai_to_claude_response, a function   *)
(* from the upstream's complete response and the cache flag of the         *)
(* configuration to a Claude response, or to an HTTPException.  A text is  *)
(* a sequence of strings; the arguments of a tool call are a sequence of   *)
(* characters of the alphabet json.loads is modelled on.                   *)

MaxItems == 2          \* content items plus tool calls of one upstream message
MaxTokenCount == 2     \* token counts of a usage object are 0..MaxTokenCount

\* One element of a message content that is a list.  kind: "text",
\* "image_url" (url: "data" for a data: URL with a comma, "data_no_comma",
\* "external"), "unknown" (a dict of another type), "nondict".
ContentItem(kind, text, url) == [kind |-> kind, text |-> text, url |-> url]

ContentItems ==
    { ContentItem("text", t, "") : t \in {<<"a">>, <<>>} }
    \cup { ContentItem("image_url", <<>>, u) : u \in {"data", "data_no_comma", "external"} }
    \cup { ContentItem("unknown", <<>>, ""), ContentItem("nondict", <<>>, "") }

\* message["content"]: kind "absent" (no key), "none", "str", "list", or
\* "other" (any other value).
MessageContent(kind, text, items) == [kind |-> kind, text |-> text, items |-> items]

\* One element of message["tool_calls"].  has_id, has_args: the key is there.
ToolCallObj(type, has_id, id, name, has_args, arguments) ==
    [type |-> type, has_id |-> has_id, id |-> id, name |-> name,
     has_args |-> has_args, arguments |-> arguments]

ToolCallObjs ==
    { ToolCallObj("function", TRUE, "id", "fn", TRUE, a) :
        a \in {<<"1">>, <<"[">>, <<>>} }
    \cup { ToolCallObj("function", FALSE, "", "fn", TRUE, <<"[", "]">>),
           ToolCallObj("function", TRUE, "id2", "fn", FALSE, <<>>),
           ToolCallObj("other", TRUE, "id", "fn", TRUE, <<"1">>) }

\* message["tool_calls"]: mode "absent", "null" or "list".
ToolCallsField(mode, list) == [mode |-> mode, list |-> list]

Choice(content, tool_calls, has_finish, finish_reason) ==
    [content |-> content, tool_calls |-> tool_calls,
     has_finish |-> has_finish, finish_reason |-> finish_reason]

RECURSIVE SeqsOfLen(_, _)
SeqsOfLen(S, n) ==
    IF n = 0 THEN {<<>>}
    ELSE {Append(q, x) : q \in SeqsOfLen(S, n - 1), x \in S}

\* The first choices: every content and every tool_calls field with at most
\* MaxItems items and tool calls together, and every finish reason.
Choices ==
    { Choice(c, t, f[1], f[2]) :
        c \in { MessageContent(k, <<>>, <<>>) : k \in {"absent", "none", "other"} }
              \cup { MessageContent("str", x, <<>>) : x \in {<<"a">>, <<>>} },
        t \in { ToolCallsField(m, <<>>) : m \in {"absent", "null"} }
              \cup { ToolCallsField("list", l) :
                       l \in UNION { SeqsOfLen(ToolCallObjs, n) : n \in 0..MaxItems } },
        f \in {<<FALSE, None>>, <<TRUE, None>>}
              \cup {<<TRUE, r>> : r \in FinishReasons} }
    \cup
    UNION { { Choice(MessageContent("list", <<>>, items), ToolCallsField("list", l),
                     TRUE, "stop") :
                items \in SeqsOfLen(ContentItems, nm[1]),
                l \in SeqsOfLen(ToolCallObjs, nm[2]) } :
            nm \in {x \in (0..MaxItems) \X (0..MaxItems) : x[1] + x[2] <= MaxItems} }

\* A usage object of a complete response; a field that is Absent is not in
\* the dict.  details is "absent", or "dict" with cached_tokens in it or not.
RUsage(present, input, prompt, output, completion, creation, read, details, cached) ==
    [present |-> present, input_tokens |-> input, prompt_tokens |-> prompt,
     output_tokens |-> output, completion_tokens |-> completion,
     cache_creation_input_tokens |-> creation, cache_read_input_tokens |-> read,
     details |-> details, cached_tokens |-> cached]

NoRUsage == RUsage(FALSE, Absent, Absent, Absent, Absent, Absent, Absent, "absent", Absent)

TokenCounts == 0..MaxTokenCount

RUsages ==
    { RUsage(TRUE, 1, Absent, 1, Absent, cr, rd, "dict", ca) :
        cr \in TokenCounts \cup {Absent}, rd \in TokenCounts \cup {Absent},
        ca \in TokenCounts \cup {Absent} }
    \cup { RUsage(TRUE, Absent, 2, Absent, 2, cr, rd, "absent", Absent) :
        cr \in TokenCounts \cup {Absent}, rd \in TokenCounts \cup {Absent} }
    \cup { RUsage(TRUE, 1, 2, 1, 2, Absent, Absent, "absent", Absent), NoRUsage }

OpenAIResponse(choices, usage) == [choices |-> choices, usage |-> usage]

TextChoice == Choice(MessageContent("str", <<"a">>, <<>>), ToolCallsField("absent", <<>>),
                     TRUE, "stop")
SecondChoice == Choice(MessageContent("str", <<"b">>, <<>>),
                       ToolCallsField("list", <<ToolCallObj("function", TRUE, "id", "fn", TRUE, <<"1">>)>>),
                       TRUE, "length")

\* The upstream responses: no choice, one choice, or two, of which any first
\* choice with one usage object and one first choice with any usage object.
OpenAIResponses ==
    { OpenAIResponse(<<>>, u) : u \in {NoRUsage, RUsage(TRUE, 1, Absent, 1, Absent, 1, 1, "absent", Absent)} }
    \cup { OpenAIResponse(<<c>>, NoRUsage) : c \in Choices }
    \cup { OpenAIResponse(<<c, SecondChoice>>, NoRUsage) : c \in Choices }
    \cup { OpenAIResponse(<<TextChoice>>, u) : u \in RUsages }

\* The content blocks of a Claude response.
TextOut(t) == [type |-> "text", text |-> t, id |-> "", name |-> "", input |-> <<>>,
               parsed |-> FALSE]
ImageOut == [type |-> "image", text |-> <<>>, id |-> "", name |-> "", input |-> <<>>,
             parsed |-> FALSE]
\* input: the JSON value the arguments parse to, written as its text (parsed),
\* or {"raw_arguments": arguments}.
ToolUseOut(id, name, input, parsed) ==
    [type |-> "tool_use", text |-> <<>>, id |-> id, name |-> name, input |-> input,
     parsed |-> parsed]

\* response_converter.py:33-64: the blocks of one element of a list content.
ConvertItem(content_item) ==
    IF content_item.kind = "nondict" THEN <<>>
    ELSE IF content_item.kind = "text"
    THEN (IF content_item.text # <<>> THEN <<TextOut(content_item.text)>> ELSE <<>>)
    ELSE IF content_item.kind = "image_url"
    THEN (IF content_item.url = "data" THEN <<ImageOut>>
          ELSE IF content_item.url = "data_no_comma" THEN <<TextOut(<<"[Image content]">>)>>
          ELSE <<TextOut(<<"[Image: ", "url", "]">>)>>)
    ELSE <<TextOut(<<"str(content_item)">>)>>

RECURSIVE ConvertItems(_)
ConvertItems(items) ==
    IF items = <<>> THEN <<>>
    ELSE ConvertItem(Head(items)) \o ConvertItems(Tail(items))

\* response_converter.py:26-67.
ConvertMessageContent(message_content) ==
    IF message_content.kind \in {"absent", "none"} THEN <<>>
    ELSE IF message_content.kind = "str" THEN <<TextOut(message_content.text)>>
    ELSE IF message_content.kind = "list" THEN ConvertItems(message_content.items)
    ELSE <<TextOut(<<"str(message_content)">>)>>

\* response_converter.py:82: the id of a tool call that has none.
GeneratedToolId == "tool_<uuid4>"

\* response_converter.py:72-86: an absent "arguments" is read as "{}".
ConvertToolCall(tool_call) ==
    IF tool_call.type # "function" THEN <<>>
    ELSE LET arguments == IF tool_call.has_args THEN tool_call.arguments
                          ELSE <<"{", "}">>
             ok == ~tool_call.has_args \/ JsonLoadsOk(arguments)
         IN <<ToolUseOut(IF tool_call.has_id THEN tool_call.id ELSE GeneratedToolId,
                         tool_call.name, arguments, ok)>>

RECURSIVE ConvertToolCalls(_)
ConvertToolCalls(tool_calls) ==
    IF tool_calls = <<>> THEN <<>>
    ELSE ConvertToolCall(Head(tool_calls)) \o ConvertToolCalls(Tail(tool_calls))

ContentBlocksMaybeEmpty(message) ==
    ConvertMessageContent(message.content)
    \o (IF message.tool_calls.mode = "list"
        THEN ConvertToolCalls(message.tool_calls.list) ELSE <<>>)

\* response_converter.py:22-90.
ContentBlocks(message) ==
    LET content_blocks ==
            ConvertMessageContent(message.content)
            \o (IF message.tool_calls.mode = "list"
                THEN ConvertToolCalls(message.tool_calls.list) ELSE <<>>)
    IN IF content_blocks = <<>> THEN <<TextOut(<<>>)>> ELSE content_blocks

MapFinishReasonWithoutFunctionCall(choice) ==
    LET finish_reason == IF choice.has_finish THEN choice.finish_reason ELSE "stop"
    IN IF finish_reason = "stop" THEN "end_turn"
       ELSE IF finish_reason = "length" THEN "max_tokens"
       ELSE IF finish_reason = "tool_calls" THEN "tool_use"
       ELSE "end_turn"

\* response_converter.py:93-99: an absent finish_reason is read as "stop".
MapFinishReason(choice) ==
    LET finish_reason == IF choice.has_finish THEN choice.finish_reason ELSE "stop"
    IN IF finish_reason = "stop" THEN "end_turn"
       ELSE IF finish_reason = "length" THEN "max_tokens"
       ELSE IF finish_reason = "tool_calls" THEN "tool_use"
       ELSE IF finish_reason = "function_call" THEN "tool_use"
       ELSE "end_turn"

CacheUsageLegacyFirst(usage) ==
    LET cache_creation_tokens == DictGet(usage.cache_creation_input_tokens, 0)
        cached_tokens == IF usage.details = "dict" THEN DictGet(usage.cached_tokens, 0)
                         ELSE 0
        cache_read_tokens ==
            IF cached_tokens > 0 THEN cached_tokens
            ELSE DictGet(usage.cache_read_input_tokens, 0)
    IN [cache_creation_input_tokens |->
            IF cache_creation_tokens > 0 THEN cache_creation_tokens ELSE Absent,
        cache_read_input_tokens |->
            IF cache_read_tokens > 0 THEN cache_read_tokens ELSE Absent]

\* response_converter.py:109-125, the cache feature being enabled: the two
\* cache fields of the result, Absent for a field that is not set.
CacheUsage(usage) ==
    LET cache_creation_tokens == DictGet(usage.cache_creation_input_tokens, 0)
        cache_read_tokens0 == DictGet(usage.cache_read_input_tokens, 0)
        cached_tokens == IF usage.details = "dict" THEN DictGet(usage.cached_tokens, 0)
                         ELSE 0
        cache_read_tokens ==
            IF cache_read_tokens0 = 0 /\ cached_tokens > 0 THEN cached_tokens
            ELSE cache_read_tokens0
    IN [cache_creation_input_tokens |->
            IF cache_creation_tokens > 0 THEN cache_creation_tokens ELSE Absent,
        cache_read_input_tokens |->
            IF cache_read_tokens > 0 THEN cache_read_tokens ELSE Absent]

NoCacheUsage == [cache_creation_input_tokens |-> Absent, cache_read_input_tokens |-> Absent]

\* response_converter.py:102-125.
ResponseUsage(usage, cache) ==
    LET c == IF cache THEN CacheUsage(usage) ELSE NoCacheUsage
    IN [input_tokens |-> DictGet(usage.input_tokens, DictGet(usage.prompt_tokens, 0)),
        output_tokens |-> DictGet(usage.output_tokens, DictGet(usage.completion_tokens, 0)),
        cache_creation_input_tokens |-> c.cache_creation_input_tokens,
        cache_read_input_tokens |-> c.cache_read_input_tokens]

ClaudeResponse(state, content, stop_reason, usage, status) ==
    [state |-> state, content |-> content, stop_reason |-> stop_reason,
     usage |-> usage, status |-> status]

NoResponse ==
    ClaudeResponse("none", <<>>, "",
                   [input_tokens |-> 0, output_tokens |-> 0,
                    cache_creation_input_tokens |-> Absent,
                    cache_read_input_tokens |-> Absent], 0)

\* response_converter.py:9-139: the response returned, or the HTTPException
\* raised for a response without choices.
convert_openai_to_claude_response(response, cache) ==
    IF response.choices = <<>>
    THEN [NoResponse EXCEPT !.state = "raised", !.status = 500]
    ELSE LET choice == response.choices[1] IN
         ClaudeResponse("returned", ContentBlocks(choice), MapFinishReason(choice),
                        ResponseUsage(response.usage, cache), 0)

\* response_converter.py:9-139: the response is converted.
RsConvert ==
    /\ claude_response.state = "none"
    /\ claude_response' =
           convert_openai_to_claude_response(openai_response, supports_prompt_cache)
    /\ UNCHANGED <<trVars, kmVars, clVars, last_line, reply, auxVars, rqVars, openai_response>>

-----------------------------------------------------------------------------
(* Specifications *)

RsIdle ==
    /\ openai_response = OpenAIResponse(<<>>, NoRUsage)
    /\ claude_response = NoResponse

RqIdle ==
    /\ claude_request = [messages |-> <<>>, system |-> NoSystem,
                          max_tokens |-> DefaultTokens]
    /\ supports_prompt_cache = FALSE
    /\ min_tokens_limit = DefaultMinTokens
    /\ max_tokens_limit = DefaultMaxTokens
    /\ openai_request = NoRequest
    /\ RsIdle

AuxIdle ==
    /\ pair = [v \in Variants |-> IdleRun]
    /\ lock = NoHandler
    /\ handler = [h \in Handlers |-> IdleHandler]
    /\ key_log = <<>>

TrIdle ==
    /\ phase = "start"
    /\ out = <<>>
    /\ tool_block_counter = 0
    /\ current_tool_calls = <<>>
    /\ final_stop_reason = "end_turn"
    /\ usage_data = ZeroUsage
    /\ lines_read = 0
    /\ loop_exc = NoExc
    /\ saw_disconnect = FALSE
    /\ last_line = NoLine
    /\ reply = NoReply

KmIdle ==
    /\ current_index = 0
    /\ failed_keys = [k \in {} |-> 0]
    /\ now = 0

\* One run of a streaming translator, of either variant, over any upstream
\* sequence of at most MaxLines lines; the streaming call it translates is
\* registered with the dispatch client under the request id TrReq.
TrInit ==
    /\ variant \in {"basic", "cancel"}
    /\ TrIdle
    /\ KmIdle
    /\ AuxIdle
    /\ RqIdle
    /\ active_requests = [r \in {TrReq} |-> FALSE]
    /\ call = [r \in Reqs |-> IdleCall]

TrNext ==
    \/ TrBegin
    \/ \E line \in Lines, disconnected \in BOOLEAN : TrLine(line, disconnected)
    \/ TrEndOfStream
    \/ \E e \in Excs : TrUpstreamRaises(e)

SpecTranslator == TrInit /\ [][TrNext]_vars

\* The dispatch client with its key manager: a logical call, plain or
\* streaming, with or without a request id, against any upstream behaviour.
ClInit ==
    /\ variant = "basic"
    /\ TrIdle
    /\ KmIdle
    /\ AuxIdle
    /\ RqIdle
    /\ active_requests = [r \in {} |-> FALSE]
    /\ call = [r \in Reqs |-> IdleCall]

ClNext ==
    \/ \E r \in Reqs, kind \in {"plain", "stream"}, has_id \in BOOLEAN :
          ClStart(r, kind, has_id)
    \/ \E r \in Reqs : ClPlainReturns(r)
    \/ \E r \in Reqs : ClPlainCancelled(r)
    \/ \E r \in Reqs, e \in UpstreamErrors : ClAttemptFails(r, e)
    \/ \E r \in Reqs : ClStreamOpens(r)
    \/ \E r \in Reqs : ClChunk(r)
    \/ \E r \in Reqs : ClStreamEnds(r)
    \/ \E r \in Reqs : ClStreamReturns(r)
    \/ \E r \in Reqs : ClConsumerStops(r)
    \/ \E r \in Reqs : ClGeneratorClosed(r)
    \/ \E r \in Reqs : ClCancelRequest(r)
    \/ KmGetNextKey
    \/ \E k \in Keys : KmMarkKeyFailed(k)
    \/ KmResetAllFailures
    \/ Tick

SpecClient == ClInit /\ [][ClNext]_vars

\* Both generators over any upstream sequence of at most MaxLines lines.
PairInit == ClInit

PairNext ==
    \/ PairBegin
    \/ \E line \in Lines : PairLine(line)
    \/ PairEndOfStream

SpecPair == PairInit /\ [][PairNext]_vars

\* The same two runs, with the message their upstream lines add up to.
ReplyNext ==
    \/ PairBegin
    \/ \E line \in Lines : ReplyLine(line)
    \/ PairEndOfStream

SpecReply == PairInit /\ [][ReplyNext]_vars

\* The key manager shared by the request handlers, and the clock.
KmInit == ClInit

KmNext ==
    \/ \E h \in Handlers : HGetNextKeyEnter(h)
    \/ \E h \in Handlers : HScanRead(h)
    \/ \E h \in Handlers : HScanAdvance(h)
    \/ \E h \in Handlers, k \in Keys : HMarkKeyFailed(h, k)
    \/ \E h \in Handlers : HResetAllFailures(h)
    \/ \E h \in Handlers : HGetAvailableKeyCount(h)
    \/ \E h \in Handlers : HGetStatus(h)
    \/ HNextCalls
    \/ Tick

SpecKeyManager == KmInit /\ [][KmNext]_vars

\* The request converter on any request of at most MaxRequestSize messages
\* and blocks, with the cache feature on or off.
RqInit ==
    /\ variant = "basic"
    /\ TrIdle
    /\ KmIdle
    /\ AuxIdle
    /\ active_requests = [r \in {} |-> FALSE]
    /\ call = [r \in Reqs |-> IdleCall]
    /\ claude_request \in ClaudeRequests
    /\ supports_prompt_cache \in BOOLEAN
    /\ min_tokens_limit = DefaultMinTokens
    /\ max_tokens_limit = DefaultMaxTokens
    /\ openai_request = NoRequest
    /\ RsIdle

RqNext == RqConvert

SpecRequest == RqInit /\ [][RqNext]_vars

\* The request converter on a request of one message, with any requested
\* max_tokens and any pair of limits the environment may configure.
LimInit ==
    /\ variant = "basic"
    /\ TrIdle
    /\ KmIdle
    /\ AuxIdle
    /\ active_requests = [r \in {} |-> FALSE]
    /\ call = [r \in Reqs |-> IdleCall]
    /\ claude_request \in ClaudeRequestsOf({1}, 0..MaxTokens)
    /\ supports_prompt_cache \in BOOLEAN
    /\ min_tokens_limit \in 0..MaxTokens
    /\ max_tokens_limit \in 0..MaxTokens
    /\ openai_request = NoRequest
    /\ RsIdle

SpecLimits == LimInit /\ [][RqNext]_vars

\* The response converter on any upstream response of OpenAIResponses, with
\* the cache feature on or off.
RsInit ==
    /\ variant = "basic"
    /\ TrIdle
    /\ KmIdle
    /\ AuxIdle
    /\ active_requests = [r \in {} |-> FALSE]
    /\ call = [r \in Reqs |-> IdleCall]
    /\ claude_request = [messages |-> <<>>, system |-> NoSystem,
                          max_tokens |-> DefaultTokens]
    /\ supports_prompt_cache \in BOOLEAN
    /\ min_tokens_limit = DefaultMinTokens
    /\ max_tokens_limit = DefaultMaxTokens
    /\ openai_request = NoRequest
    /\ openai_response \in OpenAIResponses
    /\ claude_response = NoResponse

RsNext == RsConvert

SpecResponse == RsInit /\ [][RsNext]_vars

-----------------------------------------------------------------------------
(* Properties *)

Positions(type) == {i \in 1..Len(out) : out[i].type = type}
PositionsAt(type, index) == {i \in Positions(type) : out[i].index = index}
ToolStarts == {i \in Positions("content_block_start") : out[i].sub = "tool_use"}
JsonDeltas(index) ==
    {i \in PositionsAt("content_block_delta", index) : out[i].sub = "input_json_delta"}
LastEvent == out[Len(out)]
IsPrefix(s, t) == Len(s) <= Len(t) /\ SubSeq(t, 1, Len(s)) = s
TeardownTypes == {"content_block_stop", "message_delta", "message_stop"}
NoTeardownEvent == \A i \in 1..Len(out) : out[i].type \notin TeardownTypes
Started == {k \in 1..Len(current_tool_calls) : current_tool_calls[k].started}
Ended == phase \in {"done", "error", "raised"}

\* C1: in every emitted event sequence, for each block index the
\* content_block_start precedes every content_block_delta of that index and
\* all of those precede the index's content_block_stop; a message_delta is
\* followed by message_stop and nothing else, and message_stop is the last
\* event and directly follows message_delta.
C1_BlockAndMessageOrder ==
    /\ \A i \in Positions("content_block_delta") :
          /\ \E k \in PositionsAt("content_block_start", out[i].index) : k < i
          /\ \A k \in PositionsAt("content_block_stop", out[i].index) : i < k
    /\ \A i \in Positions("content_block_stop") :
          /\ \E k \in PositionsAt("content_block_start", out[i].index) : k < i
          /\ \A k \in PositionsAt("content_block_start", out[i].index) : k < i
    /\ \A i \in Positions("message_delta") :
          \A j \in 1..Len(out) : j > i => (j = i + 1 /\ out[j].type = "message_stop")
    /\ \A i \in Positions("message_stop") :
          i = Len(out) /\ i > 1 /\ out[i - 1].type = "message_delta"

\* A finished run with a text delta, a tool block with its input_json_delta,
\* and the final events.
C1_Witness ==
    /\ phase = "done"
    /\ \E i \in PositionsAt("content_block_delta", 0) : out[i].sub = "text_delta"
    /\ \E k \in Started : JsonDeltas(current_tool_calls[k].claude_index) # {}
    /\ LastEvent = MessageStop

\* C2: in a streaming call, once a chunk of the upstream stream has been
\* delivered to the consumer, no further credential is acquired and no second
\* upstream stream is opened: every chunk the consumer has received comes from
\* the one attempt that is still the call's latest.
C2_NoFailoverAfterFirstChunk ==
    \A r \in Reqs :
        \A i \in 1..Len(call[r].chunks) : call[r].chunks[i] = Len(call[r].keys_tried)

\* C3: a call that saw its cancellation signal set while in flight is aborted,
\* and the error it surfaces is the cancellation-class error, status 499.
C3_CancellationSurfaces499 ==
    \A r \in Reqs :
        call[r].cancels > 0 => (call[r].pc = "ended" /\ call[r].result = 499)

\* C4: the step in which a call is cancelled adds no credential to the
\* cooldown set and starts no further upstream attempt.
C4_CancellationIsNotAFailure ==
    [][\A r \in Reqs :
          call'[r].cancels > call[r].cancels =>
              /\ DOMAIN failed_keys' \subseteq DOMAIN failed_keys
              /\ call'[r].keys_tried = call[r].keys_tried]_vars

\* C5: in the cancellable translator, a positive client-disconnect check
\* requests cancellation of the request id and ends the run with exactly one
\* error event, of subtype "cancelled", as the last event, and without
\* content_block_stop, message_delta or message_stop.
C5_DisconnectEndsWithCancelledError ==
    saw_disconnect =>
        /\ active_requests[TrReq]
        /\ LastEvent = ErrorEvent("cancelled")
        /\ Cardinality(Positions("error")) = 1
        /\ NoTeardownEvent

\* C6: in both variants, a failure raised while the upstream sequence is
\* consumed ends the output with an error event, and no exception leaves the
\* translator.
C6_FailureBecomesErrorEvent ==
    loop_exc # NoExc => (phase = "error" /\ LastEvent.type = "error")

\* C7: in the basic translator, an exception raised inside the loop gives
\* exactly one error event, of type api_error, as the last event, and none of
\* content_block_stop, message_delta, message_stop is emitted.
C7_BasicErrorIsTerminal ==
    (variant = "basic" /\ loop_exc # NoExc) =>
        /\ phase = "error"
        /\ LastEvent = ErrorEvent("api_error")
        /\ Cardinality(Positions("error")) = 1
        /\ NoTeardownEvent

\* A basic run that failed after a tool block had started.
C7_Witness ==
    /\ variant = "basic"
    /\ loop_exc # NoExc
    /\ Started # {}
    /\ PositionsAt("content_block_delta", 0) # {}

\* C8: in the cancellable translator, a status-499 HTTPException raised while
\* the upstream sequence is consumed gives exactly one error event, of subtype
\* "cancelled", as the last event, and no Teardown event.
C8_CancelledErrorEvent ==
    (variant = "cancel" /\ loop_exc = Exc("HTTPException", 499)) =>
        /\ phase = "error"
        /\ LastEvent = ErrorEvent("cancelled")
        /\ Cardinality(Positions("error")) = 1
        /\ NoTeardownEvent

\* A cancellable run cancelled after a tool block had started.
C8_Witness ==
    /\ variant = "cancel"
    /\ loop_exc = Exc("HTTPException", 499)
    /\ Started # {}

C10_Invariant ==
    LET calls == current_tool_calls IN
    /\ \A k \in 1..Len(calls) :
          LET a == calls[k]
              J == JsonDeltas(a.claude_index)
          IN IF a.started
             THEN IF a.json_sent
                  THEN /\ Cardinality(J) = 1
                       /\ \A i \in J : /\ JsonLoadsOk(out[i].data)
                                       /\ IsPrefix(out[i].data, a.args_buffer)
                  ELSE J = {} /\ ~JsonLoadsOk(a.args_buffer)
             ELSE ~a.json_sent /\ a.args_buffer = <<>>
    /\ \A i \in Positions("content_block_delta") :
          out[i].sub = "input_json_delta" =>
              \E k \in Started : calls[k].claude_index = out[i].index
    /\ loop_exc = NoExc => (Positions("error") = {} /\ phase \notin {"error", "raised"})

C10_Step ==
    \A k \in 1..Len(current_tool_calls') :
        LET a == current_tool_calls'[k]
            old == IF k <= Len(current_tool_calls)
                   THEN current_tool_calls[k] ELSE NewToolCall(a.tc_index)
        IN (a.json_sent /\ ~old.json_sent) =>
              \E i \in (Len(out) + 1)..Len(out') :
                  /\ out'[i].type = "content_block_delta"
                  /\ out'[i].sub = "input_json_delta"
                  /\ out'[i].index = a.claude_index
                  /\ IsPrefix(old.args_buffer, out'[i].data)
                  /\ IsPrefix(out'[i].data, a.args_buffer)

\* C10: a started tool block gets an input_json_delta only at the first moment
\* its accumulated argument buffer parses (while none has been sent the buffer
\* does not parse), the delta carries the buffer accumulated up to that moment,
\* at most one is ever emitted per tool block, and a buffer that does not
\* parse is never an error.
C10_JsonDeltaOnFirstParse == [](C10_Invariant) /\ [][C10_Step]_vars

\* One tool block whose buffer parsed, was sent, and parsed again later
\* without a second delta; another whose buffer does not parse; no error.
C10_Witness ==
    /\ phase \in {"streaming", "done"}
    /\ \E k \in Started :
          /\ current_tool_calls[k].json_sent
          /\ JsonLoadsOk(current_tool_calls[k].args_buffer)
          /\ \E i \in JsonDeltas(current_tool_calls[k].claude_index) :
                Len(out[i].data) < Len(current_tool_calls[k].args_buffer)
    /\ \E k \in Started :
          /\ ~current_tool_calls[k].json_sent
          /\ current_tool_calls[k].args_buffer # <<>>

\* The members of a set of integers, in increasing order.
RECURSIVE Ascending(_)
Ascending(S) ==
    IF S = {} THEN <<>>
    ELSE LET m == CHOOSE x \in S : \A y \in S : x <= y
         IN <<m>> \o Ascending(S \ {m})

\* C11: on normal termination the output ends with content_block_stop for
\* index 0, then one content_block_stop per started tool block in increasing
\* output-index order, then message_delta carrying the stop_reason and the
\* usage, then message_stop; and none of these events occurs earlier.
C11_TeardownOrder ==
    phase = "done" =>
        LET idx == Ascending({current_tool_calls[k].claude_index : k \in Started})
            tail == <<BlockStop(0)>> \o [i \in 1..Len(idx) |-> BlockStop(idx[i])]
                    \o <<MessageDelta(final_stop_reason, usage_data), MessageStop>>
            n == Len(out) - Len(tail)
        IN /\ n >= 0
           /\ SubSeq(out, n + 1, Len(out)) = tail
           /\ \A i \in 1..n : out[i].type \notin TeardownTypes

\* C12: the n-th tool block to start gets output index n (1, 2, 3, ... in
\* the order of the starts, never 0, no gap, no reuse), the counter is the
\* number of tool blocks started, and two upstream tool indices never share
\* an output index.
C12_OutputIndicesInStartOrder ==
    LET calls == current_tool_calls IN
    /\ \A i \in ToolStarts : out[i].index = Cardinality({j \in ToolStarts : j <= i})
    /\ tool_block_counter = Cardinality(ToolStarts)
    /\ Cardinality(Started) = tool_block_counter
    /\ \A k \in Started : calls[k].claude_index \in 1..tool_block_counter
    /\ \A k1, k2 \in Started :
          calls[k1].tc_index # calls[k2].tc_index
              => calls[k1].claude_index # calls[k2].claude_index
    /\ \A k \in 1..Len(calls) : k \notin Started => calls[k].claude_index = NoIndex

\* Two tool blocks started in the reverse order of their upstream indices.
C12_Witness ==
    /\ tool_block_counter = 2
    /\ \E k1, k2 \in Started :
          /\ current_tool_calls[k1].tc_index < current_tool_calls[k2].tc_index
          /\ current_tool_calls[k1].claude_index = 2
          /\ current_tool_calls[k2].claude_index = 1

\* C13: in the basic translator, the step that consumes the sentinel line or
\* an event carrying a finish reason ends the Streaming phase normally: the
\* text delta of the finishing event is still emitted, the stop_reason is the
\* table's image of the finish reason and is the one message_delta carries;
\* and after the phase has ended no output is produced and the stop_reason
\* does not change.
C13_BasicEndsAtFinishReason ==
    [][/\ (/\ variant = "basic"
           /\ phase = "streaming"
           /\ lines_read' = lines_read + 1
           /\ \/ last_line'.kind = "done"
              \/ /\ last_line'.kind = "chunk"
                 /\ last_line'.has_choices
                 /\ Truthy(last_line'.finish_reason))
          => LET fr == last_line'.finish_reason
                 table == IF last_line'.kind = "done" THEN final_stop_reason
                          ELSE IF fr = "length" THEN "max_tokens"
                          ELSE IF fr \in {"tool_calls", "function_call"} THEN "tool_use"
                          ELSE "end_turn"
                 new == (Len(out) + 1)..Len(out')
             IN /\ phase' = "done"
                /\ final_stop_reason' = table
                /\ (last_line'.kind = "chunk" /\ last_line'.content # None)
                      => \E i \in new : out'[i] = TextDelta(last_line'.content)
                /\ \E i \in new : out'[i].type = "message_delta" /\ out'[i].sub = table
                /\ out'[Len(out')] = MessageStop
       /\ phase = "done" => (out' = out /\ final_stop_reason' = final_stop_reason)
      ]_vars

\* The events of a run, without the usage payload of message_delta.
Comparable(evs) == [i \in 1..Len(evs) |-> [evs[i] EXCEPT !.usage = ZeroUsage]]

\* C14: over the same upstream lines, with the client connected and the
\* upstream raising nothing, the two generators have emitted the same events
\* (types, indices, deltas, stop_reason; the usage payload aside) once both
\* have ended.
C14_VariantsEmitSameEvents ==
    (\A v \in Variants : pair[v].phase \in {"done", "error", "raised"})
        => Comparable(pair["basic"].out) = Comparable(pair["cancel"].out)

\* C15: in both variants, when the run ends normally and the last upstream
\* event it consumed carried a usage object, the usage of the final
\* message_delta holds that object's input and output token counts, read
\* under either naming convention.
C15_UsageReported ==
    (/\ phase = "done"
     /\ ~saw_disconnect
     /\ last_line.kind = "chunk"
     /\ last_line.usage.present)
        => LET u == last_line.usage
               input == IF u.input_tokens # Absent THEN u.input_tokens
                        ELSE IF u.prompt_tokens # Absent THEN u.prompt_tokens ELSE 0
               output == IF u.output_tokens # Absent THEN u.output_tokens
                         ELSE IF u.completion_tokens # Absent THEN u.completion_tokens
                         ELSE 0
           IN \E i \in Positions("message_delta") :
                 out[i].usage = [input_tokens |-> input, output_tokens |-> output]

\* C16: the step that consumes a line that is blank, lacks the "data: "
\* prefix or carries a payload that is not JSON yields no event, leaves the
\* tool accumulators, the output-index counter and the stop_reason as they
\* were, raises nothing, and leaves the translator in its Streaming phase.
C16_MalformedLineSkipped ==
    [][(/\ lines_read' = lines_read + 1
        /\ last_line'.kind \in {"blank", "nodata", "badjson"}
        /\ ~saw_disconnect')
          => /\ out' = out
             /\ current_tool_calls' = current_tool_calls
             /\ tool_block_counter' = tool_block_counter
             /\ final_stop_reason' = final_stop_reason
             /\ loop_exc' = loop_exc
             /\ phase' = "streaming"
      ]_vars

\* A malformed line was skipped while a tool block was open with arguments
\* accumulated, and the run goes on.
C16_Witness ==
    /\ phase = "streaming"
    /\ last_line.kind \in {"blank", "nodata", "badjson"}
    /\ lines_read = MaxLines
    /\ \E k \in Started : current_tool_calls[k].args_buffer # <<>>

\* The step in which the call of handler h to method op returns.
ReturnsFrom(h, op) ==
    /\ handler[h].pc # "returned"
    /\ handler'[h].pc = "returned"
    /\ handler'[h].op = op

HasReturned(h, op) == handler[h].pc = "returned" /\ handler[h].op = op

\* A key is in cooldown at time t when it has a failure time that is not
\* older than the cooldown period.
InCooldown(failed, k, t) == k \in DOMAIN failed /\ t - failed[k] <= CooldownPeriod

\* C17: when get_next_key returns a key, that key has no failure recorded
\* less than the cooldown period before the call (it is not in cooldown); and
\* it returns None exactly when every key of the pool is in cooldown.
C17_NeverReturnsKeyInCooldown ==
    [][\A h \in Handlers :
          ReturnsFrom(h, "get_next_key") =>
              LET f == handler[h].pre.failed
                  t == handler[h].current_time
                  key == handler'[h].ret
              IN /\ key # NoKey =>
                      /\ key \in Keys
                      /\ key \in DOMAIN f => ~(t - f[key] < CooldownPeriod)
                      /\ ~InCooldown(f, key, t)
                 /\ key = NoKey <=> \A k \in Keys : InCooldown(f, k, t)
      ]_vars

\* get_next_key has returned a key while another key was in cooldown.
C17_Witness ==
    \E h \in Handlers :
        /\ HasReturned(h, "get_next_key")
        /\ handler[h].ret # NoKey
        /\ ~handler[h].clean
        /\ \E k \in Keys \ {handler[h].ret} : InCooldown(failed_keys, k, now)

C18_Step ==
    \A h \in Handlers :
        ReturnsFrom(h, "get_next_key") =>
            LET f == handler[h].pre.failed
                t == handler[h].current_time
                start == handler[h].pre.index
                offs == {d \in 0..(NumKeys - 1) :
                            ~InCooldown(f, ((start + d) % NumKeys) + 1, t)}
            IN /\ handler'[h].advanced <= NumKeys
               /\ IF offs = {}
                  THEN /\ handler'[h].ret = NoKey
                       /\ current_index' = start
                  ELSE LET d == CHOOSE x \in offs : \A y \in offs : x <= y
                       IN /\ handler'[h].ret = ((start + d) % NumKeys) + 1
                          /\ handler'[h].advanced = d + 1
                          /\ current_index' = (start + d + 1) % NumKeys

C18_Invariant ==
    Len(key_log) = NumKeys =>
        /\ \A i \in 1..(NumKeys - 1) : key_log[i + 1] = (key_log[i] % NumKeys) + 1
        /\ {key_log[i] : i \in 1..NumKeys} = Keys

\* C18: get_next_key examines at most len(api_keys) keys from the cursor on in
\* circular order, returns the first that is not in cooldown and leaves the
\* cursor one position past it; and NumKeys consecutive calls made while no
\* key has failed return every key exactly once, in list order.
C18_RoundRobinScan == [](C18_Invariant) /\ [][C18_Step]_vars

\* NumKeys consecutive calls have returned every key once, wrapping around
\* the end of the list.
C18_Witness ==
    /\ Len(key_log) = NumKeys
    /\ key_log[1] # 1

RECURSIVE SumAdvanced(_)
SumAdvanced(S) ==
    IF S = {} THEN 0
    ELSE LET h == CHOOSE x \in S : TRUE
         IN handler[h].advanced + SumAdvanced(S \ {h})

C19_Invariant ==
    /\ \A h \in Handlers : handler[h].pc \in {"scan", "advance"} => lock = h
    /\ (\A h \in Handlers : HasReturned(h, "get_next_key") /\ handler[h].clean)
          => /\ \A h \in Handlers : handler[h].ret \in Keys
             /\ \A h1, h2 \in Handlers : h1 # h2 => handler[h1].ret # handler[h2].ret
             /\ SumAdvanced(Handlers) = Cardinality(Handlers)

C19_Step ==
    \A h \in Handlers :
        ReturnsFrom(h, "get_next_key") =>
            LET g == get_next_key(handler[h].pre.failed, handler[h].pre.index,
                                  handler[h].current_time)
            IN /\ handler'[h].ret = g.key
               /\ current_index' = g.index
               /\ failed_keys' = g.failed

\* C19: the calls of concurrent handlers into the key manager take effect one
\* at a time: a handler inside get_next_key holds the lock, and when it returns
\* the key, the cursor and failed_keys are what the whole method gives on the
\* cursor and failed_keys it found on entry; concurrent get_next_key calls made
\* while no key has failed return distinct keys and advance the cursor once
\* each.
C19_OperationsAreAtomic == [](C19_Invariant) /\ [][C19_Step]_vars

\* Every handler has called get_next_key at the same time, no key failed.
C19_Witness ==
    /\ \A h \in Handlers : HasReturned(h, "get_next_key") /\ handler[h].clean
    /\ \E h \in Handlers : handler[h].ret # 1

\* C20: get_status and get_available_key_count leave the cursor and
\* failed_keys as they were, and take a key whose failure time is older than
\* the cooldown period to be available without evicting its entry.
C20_StatusIsReadOnly ==
    [][\A h \in Handlers :
          LET avail == {k \in Keys : k \notin DOMAIN failed_keys
                                       \/ now - failed_keys[k] > CooldownPeriod}
          IN /\ ReturnsFrom(h, "get_available_key_count") =>
                  /\ current_index' = current_index
                  /\ failed_keys' = failed_keys
                  /\ handler'[h].ret = Cardinality(avail)
             /\ ReturnsFrom(h, "get_status") =>
                  /\ current_index' = current_index
                  /\ failed_keys' = failed_keys
                  /\ handler'[h].ret.available_keys = Cardinality(avail)
                  /\ \A k \in Keys :
                        handler'[h].ret.keys_status[k].status = "available"
                            <=> k \in avail
      ]_vars

\* get_status has reported as available a key whose expired entry is still
\* in failed_keys.
C20_Witness ==
    \E h \in Handlers :
        /\ HasReturned(h, "get_status")
        /\ \E k \in DOMAIN failed_keys :
              /\ now - failed_keys[k] > CooldownPeriod
              /\ handler[h].ret.keys_status[k].status = "available"

\* C21: mark_key_failed(k) sets the failure time of k to the current time,
\* whatever time k had before, and marking k again at the same time changes
\* nothing; the cursor and the entries of the other keys are as they were.
\* reset_all_failures leaves failed_keys empty and the cursor as it was.
C21_MarkAndReset ==
    [][\A h \in Handlers :
          /\ ReturnsFrom(h, "mark_key_failed") =>
                LET k == handler'[h].key
                IN /\ k \in Keys
                   /\ DOMAIN failed_keys' = DOMAIN failed_keys \cup {k}
                   /\ failed_keys'[k] = now
                   /\ \A k2 \in DOMAIN failed_keys \ {k} :
                         failed_keys'[k2] = failed_keys[k2]
                   /\ current_index' = current_index
                   /\ mark_key_failed(failed_keys', k, now) = failed_keys'
          /\ ReturnsFrom(h, "reset_all_failures") =>
                /\ DOMAIN failed_keys' = {}
                /\ current_index' = current_index
      ]_vars

\* A handler has marked a key that had an earlier failure time, while another
\* key keeps its entry.
C21_Witness ==
    \E h \in Handlers :
        /\ HasReturned(h, "mark_key_failed")
        /\ handler[h].key \in DOMAIN handler[h].pre.failed \cap DOMAIN failed_keys
        /\ handler[h].pre.failed[handler[h].key] < failed_keys[handler[h].key]
        /\ \E k2 \in DOMAIN failed_keys : k2 # handler[h].key

\* The steps a call still has to take are bounded by Rank: the attempts left,
\* the chunks its upstream streams may still hand over, and the position
\* inside the current attempt.
Rank(c) ==
    CASE c.pc \in {"ended", "closed"} -> 0
      [] c.pc = "abandoned" -> 1
      [] c.pc = "yield_done" -> 2
      [] OTHER -> 3 + 2 * (c.max_attempts - c.attempts)
                    + (MaxChunks - Len(c.chunks))
                    + (IF c.pc = "await" THEN 1 ELSE 0)

C22_Invariant ==
    \A r \in Reqs :
        /\ call[r].attempts <= call[r].max_attempts
        /\ Len(call[r].keys_tried) <= call[r].max_attempts
        /\ Rank(call[r]) >= 0

C22_Step ==
    \A r \in Reqs :
        /\ (call[r].pc = "idle" /\ call'[r].pc # "idle") =>
              call'[r].max_attempts =
                  Cardinality({k \in Keys : k \notin DOMAIN failed_keys
                                 \/ now - failed_keys[k] > CooldownPeriod})
        /\ call[r].pc # "idle" =>
              /\ call'[r].max_attempts = call[r].max_attempts
              /\ call'[r] # call[r] => Rank(call'[r]) < Rank(call[r])

\* C22: a call, plain or streaming, starts at most N upstream attempts, N
\* being the number of available keys counted when the call enters its loop
\* and never counted again; and the call terminates: every step it takes
\* brings it closer to its end, each attempt taking finitely many steps.
C22_AtMostNAttempts == [](C22_Invariant) /\ [][C22_Step]_vars

\* A call has ended on a retryable failure after its one counted attempt,
\* while both keys are available again.
C22_Witness ==
    \E r \in Reqs :
        /\ call[r].pc = "ended"
        /\ call[r].max_attempts = 1
        /\ Len(call[r].keys_tried) = 1
        /\ call[r].attempts = 1
        /\ failed_keys = EmptyMap

\* An upstream error after which the loop goes on to the next key:
\* authentication, rate limit, 5xx, or any other failure.
Retryable(e) ==
    \/ e.cls \in {"AuthenticationError", "RateLimitError", "Exception"}
    \/ e.cls = "APIError" /\ (e.status = Absent \/ e.status >= 500)

\* The step in which an attempt of call r fails on a retryable upstream error.
RetryableFailure(r) ==
    /\ call'[r].attempts = call[r].attempts + 1
    /\ Retryable(call'[r].raised)

\* C23: when an attempt fails on an authentication, rate-limit, 5xx or other
\* failure, the key it used is in cooldown when the step is over; if the call
\* goes on to another attempt, that attempt uses a different key, and it uses
\* a key the call has tried before only if the entry of that key had been
\* removed by reset_all_failures or had expired.
C23_FailedKeyCoolsDown ==
    [][\A r \in Reqs :
          RetryableFailure(r) =>
              LET p == call[r].api_key
                  k == call'[r].api_key
              IN /\ p \in DOMAIN failed_keys'
                 /\ failed_keys'[p] = now
                 /\ now - failed_keys'[p] <= CooldownPeriod
                 /\ Len(call'[r].keys_tried) > Len(call[r].keys_tried) =>
                       /\ k # p
                       /\ \A i \in 1..Len(call[r].keys_tried) :
                             call[r].keys_tried[i] = k =>
                                 \/ k \notin DOMAIN failed_keys
                                 \/ now - failed_keys[k] > CooldownPeriod
      ]_vars

\* A second attempt is under way with the other key, while the key of the
\* failed first attempt is in cooldown.
C23_Witness ==
    \E r \in Reqs :
        /\ call[r].pc \in {"await", "iter"}
        /\ Len(call[r].keys_tried) = 2
        /\ call[r].keys_tried[1] # call[r].keys_tried[2]
        /\ Retryable(call[r].raised)
        /\ call[r].keys_tried[1] \in DOMAIN failed_keys
        /\ now - failed_keys[call[r].keys_tried[1]] <= CooldownPeriod

\* The step in which an attempt of call r fails, whatever comes of it.
AttemptFailure(r) ==
    /\ call[r].pc \in {"await", "iter"}
    /\ \/ call'[r].attempts = call[r].attempts + 1
       \/ call'[r].pc = "ended" /\ call'[r].result # 200

\* A request error of the client: 4xx other than authentication and rate
\* limit.
ClientError(e) ==
    \/ e.cls = "BadRequestError"
    \/ e.cls = "APIError" /\ e.status >= 400 /\ e.status < 500

\* C24: when an attempt fails on a client-side request error, the call ends
\* in that step with the status of that error; no key is acquired (the cursor
\* stays, no attempt starts) and failed_keys is left as it was.
C24_ClientErrorFailsAtOnce ==
    [][\A r \in Reqs :
          (AttemptFailure(r) /\ ClientError(call'[r].raised)) =>
              /\ call'[r].pc = "ended"
              /\ call'[r].result = call'[r].raised.status
              /\ call'[r].keys_tried = call[r].keys_tried
              /\ call'[r].attempts = call[r].attempts
              /\ current_index' = current_index
              /\ failed_keys' = failed_keys
      ]_vars

\* A call has ended on a client error in its second attempt, with an attempt
\* to spare, and the key of that attempt has no failure recorded.
C24_Witness ==
    \E r \in Reqs :
        /\ call[r].pc = "ended"
        /\ ClientError(call[r].raised)
        /\ call[r].result \in {400, 404}
        /\ Len(call[r].keys_tried) = 2
        /\ call[r].attempts < call[r].max_attempts
        /\ call[r].api_key \notin DOMAIN failed_keys

\* The status under which an upstream error is reported to the caller.
StatusOf(e) ==
    CASE e.cls = "AuthenticationError" -> 401
      [] e.cls = "RateLimitError" -> 429
      [] e.cls = "BadRequestError" -> 400
      [] e.cls = "APIError" /\ e.status # Absent -> e.status
      [] OTHER -> 500

\* C25: a call that has ended without success after a failed attempt surfaces
\* the error classified from its last failed attempt, with that error's
\* status; a call that has ended without success and without a failed attempt
\* surfaces status 503, and it has tried no key.
C25_LastFailureSurfaces ==
    \A r \in Reqs :
        (call[r].pc = "ended" /\ call[r].result # 200) =>
            IF call[r].raised = NoExc
            THEN call[r].result = 503 /\ call[r].keys_tried = <<>>
            ELSE call[r].raised.cls # "HTTPException" =>
                     call[r].result = StatusOf(call[r].raised)

\* A call has ended after two failed attempts; it surfaces the rate-limit
\* error of the second one.
C25_Witness ==
    \E r \in Reqs :
        /\ call[r].pc = "ended"
        /\ call[r].attempts = 2
        /\ call[r].raised.cls = "RateLimitError"
        /\ call[r].result = 429

\* C26: in the step in which a call surfaces a retryable failure
\* (authentication, rate limit, 5xx, transport) to its caller, every key of the
\* pool is in cooldown.
C26_SurfacedOnlyWhenExhausted ==
    [][\A r \in Reqs :
          (/\ call[r].pc \in {"await", "iter"}
           /\ call'[r].pc = "ended"
           /\ call'[r].result # 200
           /\ Retryable(call'[r].raised)) =>
              \A k \in Keys : InCooldown(failed_keys', k, now)
      ]_vars

\* C27: the registry holds the entry of a request id only while the call made
\* with that id is in progress: when the call has ended, or the consumer of
\* its stream has stopped asking for items, the entry is absent, so the
\* registry is empty when no call is in flight.
C27_RegistryHoldsOnlyCallsInProgress ==
    \A r \in Reqs :
        call[r].pc \in {"idle", "ended", "abandoned", "closed"} =>
            r \notin DOMAIN active_requests

\* The number of OpenAI messages a Claude message stands for.
ExpectedCount(m) ==
    IF m.is_str \/ m.role # "user" THEN 1
    ELSE Cardinality({j \in 1..Len(m.blocks) : m.blocks[j].type = "tool_result"})
         + (IF \E j \in 1..Len(m.blocks) : m.blocks[j].type \in {"text", "image"}
            THEN 1 ELSE 0)

RECURSIVE SumCounts(_, _)
SumCounts(messages, n) ==
    IF n = 0 THEN 0 ELSE SumCounts(messages, n - 1) + ExpectedCount(messages[n])

\* The number of converted messages that come before those of the i-th
\* message of the request.
Offset(i) ==
    (IF openai_request.messages # <<>> /\ openai_request.messages[1].role = "system"
     THEN 1 ELSE 0)
    + SumCounts(claude_request.messages, i - 1)

\* The converted messages of the i-th message of the request.
Segment(i) ==
    SubSeq(openai_request.messages, Offset(i) + 1,
           Offset(i) + ExpectedCount(claude_request.messages[i]))

\* The blocks of the given types, in the order of the message.
BlocksOfType(m, types) ==
    LET at == {j \in 1..Len(m.blocks) : m.blocks[j].type \in types}
        nth(n) == CHOOSE j \in at : Cardinality({q \in at : q <= j}) = n
    IN [n \in 1..Cardinality(at) |-> m.blocks[nth(n)]]

\* A user message with a list of blocks that holds tool results and text or
\* image blocks.
Mixed(m) ==
    /\ ~m.is_str
    /\ m.role = "user"
    /\ BlocksOfType(m, {"tool_result"}) # <<>>
    /\ BlocksOfType(m, {"text", "image"}) # <<>>

\* The texts of a content, in order.
TextsOf(content) ==
    IF content.kind = "str" THEN <<content.text>>
    ELSE LET at == {j \in 1..Len(content.parts) : content.parts[j].type = "text"}
             nth(n) == CHOOSE j \in at : Cardinality({q \in at : q <= j}) = n
         IN [n \in 1..Cardinality(at) |-> content.parts[nth(n)].text]

\* C28: a user message whose blocks hold tool results and text or image blocks
\* is converted to one "tool" message per tool result, in the order of the
\* tool results and with their tool_use_id as tool_call_id, followed by exactly
\* one "user" message, which is built from the other blocks, whatever the
\* order of the blocks.
C28_ToolResultsBeforeUserMessage ==
    openai_request.converted =>
        /\ Len(openai_request.messages) = Offset(Len(claude_request.messages) + 1)
        /\ \A i \in 1..Len(claude_request.messages) :
              LET m == claude_request.messages[i]
                  results == BlocksOfType(m, {"tool_result"})
                  others == BlocksOfType(m, {"text"})
                  seg == Segment(i)
              IN Mixed(m) =>
                    /\ Len(seg) = Len(results) + 1
                    /\ \A j \in 1..Len(results) :
                          /\ seg[j].role = "tool"
                          /\ seg[j].tool_call_id = results[j].id
                    /\ seg[Len(seg)].role = "user"
                    /\ ~supports_prompt_cache =>
                          \/ others = <<>>
                          \/ TextsOf(seg[Len(seg)].content)
                                = [n \in 1..Len(others) |-> others[n].text]

\* A converted request with a system message and a user message whose blocks
\* are a text followed by two tool results.
C28_Witness ==
    /\ openai_request.converted
    /\ Len(openai_request.messages) = 4
    /\ openai_request.messages[1].role = "system"
    /\ \E i \in 1..Len(claude_request.messages) :
          LET m == claude_request.messages[i] IN
          /\ Mixed(m)
          /\ m.blocks[1].type = "text"
          /\ Len(BlocksOfType(m, {"tool_result"})) = 2
          /\ m.blocks[2].id # m.blocks[3].id

\* C29: no converted message carries an empty tool_calls list; the message
\* of an assistant message carries tool_calls exactly when that message has a
\* tool_use block, with one entry per tool_use block, in their order; no other
\* message carries the field.
C29_NoEmptyToolCalls ==
    openai_request.converted =>
        /\ \A k \in 1..Len(openai_request.messages) :
              LET msg == openai_request.messages[k] IN
              /\ msg.has_tool_calls => (msg.tool_calls # <<>> /\ msg.role = "assistant")
              /\ ~msg.has_tool_calls => msg.tool_calls = <<>>
        /\ \A i \in 1..Len(claude_request.messages) :
              LET m == claude_request.messages[i]
                  uses == BlocksOfType(m, {"tool_use"})
                  seg == Segment(i)
              IN m.role = "assistant" =>
                    /\ Len(seg) = 1
                    /\ seg[1].role = "assistant"
                    /\ seg[1].has_tool_calls <=> uses # <<>>
                    /\ Len(seg[1].tool_calls) = Len(uses)
                    /\ \A j \in 1..Len(uses) :
                          /\ seg[1].tool_calls[j].id = uses[j].id
                          /\ seg[1].tool_calls[j].type = "function"

\* A converted request with an assistant message of two tool_use blocks
\* around a text.
C29_Witness ==
    /\ openai_request.converted
    /\ \E i \in 1..Len(claude_request.messages) :
          LET m == claude_request.messages[i] IN
          /\ m.role = "assistant"
          /\ Len(m.blocks) = 3
          /\ m.blocks[1].type = "tool_use"
          /\ m.blocks[2].type = "text"
          /\ m.blocks[3].type = "tool_use"
          /\ m.blocks[1].id # m.blocks[3].id
          /\ Len(Segment(i)[1].tool_calls) = 2

\* The parts of a content that carry a cache marker.
Marked(content) ==
    {j \in 1..Len(content.parts) : content.parts[j].cache_control}

\* The positions of the converted user messages, and those with a marker.
ConvertedUsers ==
    {i \in 1..Len(openai_request.messages) : openai_request.messages[i].role = "user"}

MarkedUsers ==
    {i \in ConvertedUsers : Marked(openai_request.messages[i].content) # {}}

\* The messages the request converts to with the cache feature disabled.
Unmarked ==
    convert_claude_to_openai(claude_request, FALSE, min_tokens_limit,
                             max_tokens_limit).messages

\* The parts of a content, a string being one text part.
PartsOf(content) ==
    IF content.kind = "str" THEN <<Part("text", content.text)>> ELSE content.parts

\* C30: with the cache feature enabled and N user messages in the converted
\* list, the user messages with a cache marker are the last min(N, 2) ones;
\* each has the marker on its last text part and on no other part, its content
\* being the list of its parts, with a text part "..." appended when it had
\* no text part; the other messages carry no marker, the system message
\* aside.  With the feature disabled no message carries a marker and every
\* content keeps its shape.
C30_CacheMarkers ==
    openai_request.converted =>
        LET msgs == openai_request.messages
            n == Cardinality(ConvertedUsers)
        IN /\ Len(msgs) = Len(Unmarked)
           /\ supports_prompt_cache =>
                 /\ Cardinality(MarkedUsers) = IF n < 2 THEN n ELSE 2
                 /\ \A i \in MarkedUsers, j \in ConvertedUsers \ MarkedUsers : j < i
                 /\ \A i \in MarkedUsers :
                       LET parts == msgs[i].content.parts
                           before == PartsOf(Unmarked[i].content)
                       IN /\ msgs[i].content.kind = "list"
                          /\ Cardinality(Marked(msgs[i].content)) = 1
                          /\ \A j \in Marked(msgs[i].content) :
                                /\ parts[j].type = "text"
                                /\ \A k \in (j + 1)..Len(parts) : parts[k].type # "text"
                          /\ [j \in 1..Len(parts) |->
                                [parts[j] EXCEPT !.cache_control = FALSE]]
                               = IF \E j \in 1..Len(before) : before[j].type = "text"
                                 THEN before
                                 ELSE Append(before, Part("text", <<"...">>))
                 /\ \A i \in 1..Len(msgs) :
                       (i \notin MarkedUsers /\ msgs[i].role # "system") =>
                           msgs[i] = Unmarked[i]
           /\ ~supports_prompt_cache =>
                 /\ \A i \in 1..Len(msgs) : Marked(msgs[i].content) = {}
                 /\ \A i \in 1..Len(msgs) :
                       msgs[i].role = "system" => msgs[i].content.kind = "str"
                 /\ \A i \in 1..Len(claude_request.messages) :
                       claude_request.messages[i].is_str =>
                           Segment(i)[1].content
                               = StrContent(claude_request.messages[i].text)

\* With the cache feature enabled, a converted request with three user
\* messages, one of them with an image alone: the last two carry the marker,
\* one of them on a synthesized text part.
C30_Witness ==
    /\ openai_request.converted
    /\ supports_prompt_cache
    /\ Cardinality(ConvertedUsers) = 3
    /\ Cardinality(MarkedUsers) = 2
    /\ \E i \in MarkedUsers :
          \E j \in Marked(openai_request.messages[i].content) :
              openai_request.messages[i].content.parts[j].text = <<"...">>

\* C31 (as stated): the max_tokens of the converted request lies within
\* [min_limit, max_limit] for every requested value and every configured
\* pair of limits.
C31_WithinLimits ==
    openai_request.converted =>
        /\ openai_request.max_tokens >= min_tokens_limit
        /\ openai_request.max_tokens <= max_tokens_limit

\* C31 (amended): the max_tokens of the converted request never exceeds
\* max_limit; it is at least min_limit when min_limit <= max_limit, and it
\* is max_limit itself, below min_limit, when min_limit > max_limit.
C31_ClampedToMaxLimit ==
    openai_request.converted =>
        /\ openai_request.max_tokens <= max_tokens_limit
        /\ min_tokens_limit <= max_tokens_limit =>
              /\ openai_request.max_tokens >= min_tokens_limit
              /\ claude_request.max_tokens \in min_tokens_limit..max_tokens_limit =>
                    openai_request.max_tokens = claude_request.max_tokens
        /\ min_tokens_limit > max_tokens_limit =>
              openai_request.max_tokens = max_tokens_limit

\* A requested value above the limits, with min_limit > max_limit, converted.
C31_Witness ==
    /\ openai_request.converted
    /\ min_tokens_limit > max_tokens_limit
    /\ claude_request.max_tokens > min_tokens_limit
    /\ openai_request.max_tokens = max_tokens_limit
    /\ openai_request.max_tokens < min_tokens_limit

\* The text blocks and the images with a base64 source among the blocks of a
\* message, in the order of the message: the blocks that have a target block.
KeptBlocks(m) ==
    LET at == {j \in 1..Len(m.blocks) :
                  \/ m.blocks[j].type = "text"
                  \/ m.blocks[j].type = "image" /\ m.blocks[j].ok}
        nth(n) == CHOOSE j \in at : Cardinality({q \in at : q <= j}) = n
    IN [n \in 1..Cardinality(at) |-> m.blocks[nth(n)]]

\* The user messages of the request whose content is a list that holds a
\* text or image block.
UserBlockLists ==
    {i \in 1..Len(claude_request.messages) :
        /\ ~claude_request.messages[i].is_str
        /\ claude_request.messages[i].role = "user"
        /\ BlocksOfType(claude_request.messages[i], {"text", "image"}) # <<>>}

\* The content of the user message the i-th message of the request converts to.
UserContent(i) == Segment(i)[Len(Segment(i))].content

\* content is the array of the target blocks of kept, in the same order.
ArrayOf(content, kept) ==
    /\ content.kind = "list"
    /\ Len(content.parts) = Len(kept)
    /\ \A n \in 1..Len(kept) :
          IF kept[n].type = "text"
          THEN content.parts[n] = Part("text", kept[n].text)
          ELSE content.parts[n].type = "image_url"

\* C32 (as stated): a user block list that converts to exactly one target
\* block which is text yields that bare text; a list that converts to more
\* than one block, or that contains an image, yields the array of its target
\* blocks in order.  (Before the cache annotation, which rewrites contents.)
C32_BareStringOrArray ==
    (openai_request.converted /\ ~supports_prompt_cache) =>
        \A i \in UserBlockLists :
            LET m == claude_request.messages[i]
                kept == KeptBlocks(m)
            IN /\ (Len(kept) = 1 /\ kept[1].type = "text") =>
                      UserContent(i) = StrContent(kept[1].text)
               /\ (Len(kept) > 1 \/ BlocksOfType(m, {"image"}) # <<>>) =>
                      ArrayOf(UserContent(i), kept)

\* C32 (amended): an image whose source is not a base64 dict has no target
\* block.  A list with exactly one target block which is text yields that
\* bare text, also when it holds such images; every other list (more than one
\* target block, a single image, or none) yields the array of its target
\* blocks in order.
C32_CollapseOnlySingleText ==
    (openai_request.converted /\ ~supports_prompt_cache) =>
        \A i \in UserBlockLists :
            LET kept == KeptBlocks(claude_request.messages[i])
            IN IF Len(kept) = 1 /\ kept[1].type = "text"
               THEN UserContent(i) = StrContent(kept[1].text)
               ELSE ArrayOf(UserContent(i), kept)

\* Converted: a list of a text and an image without a base64 source, which
\* yields the bare text.
C32_Witness ==
    /\ openai_request.converted
    /\ ~supports_prompt_cache
    /\ \E i \in UserBlockLists :
          /\ claude_request.messages[i].blocks = <<TextBlock(<<"a">>), ImageBlock(FALSE)>>
          /\ UserContent(i) = StrContent(<<"a">>)

\* The first choice of the upstream response yields no content block: its
\* content is absent, None or a list of empty texts and non-dict elements,
\* and it has no tool call of type "function".
YieldsNoBlock(choice) ==
    /\ \/ choice.content.kind \in {"absent", "none"}
       \/ /\ choice.content.kind = "list"
          /\ \A n \in 1..Len(choice.content.items) :
                \/ choice.content.items[n].kind = "nondict"
                \/ /\ choice.content.items[n].kind = "text"
                   /\ choice.content.items[n].text = <<>>
    /\ \/ choice.tool_calls.mode # "list"
       \/ \A n \in 1..Len(choice.tool_calls.list) :
             choice.tool_calls.list[n].type # "function"

\* The number of elements of the first choice that yield a block.
YieldCount(choice) ==
    (IF choice.content.kind \in {"str", "other"} THEN 1
     ELSE IF choice.content.kind = "list"
     THEN Cardinality({n \in 1..Len(choice.content.items) :
                          \/ choice.content.items[n].kind \in {"image_url", "unknown"}
                          \/ /\ choice.content.items[n].kind = "text"
                             /\ choice.content.items[n].text # <<>>})
     ELSE 0)
    + (IF choice.tool_calls.mode = "list"
       THEN Cardinality({n \in 1..Len(choice.tool_calls.list) :
                            choice.tool_calls.list[n].type = "function"})
       ELSE 0)

\* C33: for an upstream response with at least one choice the converter
\* returns a response with at least one content block: a single empty text
\* block when the first choice yields no block, and otherwise one block for
\* each element of the first choice that yields one; for an
\* upstream response without choices it raises (status 500) and returns
\* nothing.
C33_AtLeastOneBlock ==
    claude_response.state # "none" =>
        IF openai_response.choices # <<>>
        THEN /\ claude_response.state = "returned"
             /\ Len(claude_response.content) >= 1
             /\ YieldsNoBlock(openai_response.choices[1])
                   => claude_response.content = <<TextOut(<<>>)>>
             /\ ~YieldsNoBlock(openai_response.choices[1])
                   => Len(claude_response.content)
                          = YieldCount(openai_response.choices[1])
        ELSE /\ claude_response.state = "raised"
             /\ claude_response.status = 500
             /\ claude_response.content = <<>>

\* A first choice whose content is a list of one empty text and whose only
\* tool call is not a function: the empty text block is appended.
C33_Witness ==
    /\ claude_response.state = "returned"
    /\ openai_response.choices[1].content.kind = "list"
    /\ Len(openai_response.choices[1].content.items) = 1
    /\ Len(openai_response.choices[1].tool_calls.list) = 1
    /\ YieldsNoBlock(openai_response.choices[1])
    /\ claude_response.content = <<TextOut(<<>>)>>

\* The stop_reason the response converter gives a choice with the finish
\* reason fr; Absent stands for a choice without the key.
ConverterStopReason(fr) ==
    MapFinishReason(Choice(MessageContent("none", <<>>, <<>>),
                           ToolCallsField("absent", <<>>),
                           fr # "absent", IF fr = "absent" THEN None ELSE fr))

\* The table of the stop reasons.
StopReasonTable(fr) ==
    IF fr = "stop" THEN "end_turn"
    ELSE IF fr = "length" THEN "max_tokens"
    ELSE IF fr \in {"tool_calls", "function_call"} THEN "tool_use"
    ELSE "end_turn"

\* The translator has taken a chunk with choices and run its loop body to
\* the end.
ChunkProcessed ==
    /\ phase = "streaming"
    /\ lines_read' = lines_read + 1
    /\ ~saw_disconnect'
    /\ phase' \in {"streaming", "done"}
    /\ last_line'.kind = "chunk"
    /\ last_line'.has_choices

C34_Invariant ==
    /\ lines_read = 0 => final_stop_reason = ConverterStopReason("absent")
    /\ phase = "done" =>
          /\ Len(out) >= 2
          /\ out[Len(out) - 1].type = "message_delta"
          /\ out[Len(out) - 1].sub = final_stop_reason

C34_Step ==
    /\ ChunkProcessed =>
          LET fr == last_line'.finish_reason IN
          /\ ConverterStopReason(fr) = StopReasonTable(fr)
          /\ final_stop_reason' = IF Truthy(fr) THEN ConverterStopReason(fr)
                                   ELSE final_stop_reason
    /\ ~ChunkProcessed => final_stop_reason' = final_stop_reason

\* C34: the response converter maps stop to end_turn, length to max_tokens,
\* tool_calls and function_call to tool_use and any other or absent finish
\* reason to end_turn; in both streaming variants the stop reason is that of
\* an absent finish reason until a chunk carries one, becomes what the
\* response converter gives that finish reason when a chunk carries one, and
\* is what the final message_delta reports.
C34_SameStopReason == [](C34_Invariant) /\ [][C34_Step]_vars

\* A run of the cancellable generator that took a chunk with the finish
\* reason function_call and then ended: it reports tool_use.
C34_Witness ==
    /\ variant = "cancel"
    /\ phase = "done"
    /\ ~saw_disconnect
    /\ last_line.kind = "chunk"
    /\ last_line.finish_reason = "function_call"
    /\ out[Len(out) - 1] = MessageDelta("tool_use", usage_data)

\* C35: with the cache feature enabled, cache_read_input_tokens of the
\* result is the direct field of the upstream usage when that is greater
\* than 0 and otherwise input_tokens_details.cached_tokens,
\* cache_creation_input_tokens is the direct field, and each of the two is in
\* the result only when its value is greater than 0; with the feature
\* disabled neither is in the result.
C35_CacheUsage ==
    claude_response.state = "returned" =>
        LET u == openai_response.usage
            direct == IF u.cache_read_input_tokens = Absent THEN 0
                      ELSE u.cache_read_input_tokens
            legacy == IF u.details = "dict" /\ u.cached_tokens # Absent
                      THEN u.cached_tokens ELSE 0
            read == IF direct > 0 THEN direct ELSE legacy
            creation == IF u.cache_creation_input_tokens = Absent THEN 0
                        ELSE u.cache_creation_input_tokens
        IN IF supports_prompt_cache
           THEN /\ claude_response.usage.cache_read_input_tokens
                      = (IF read > 0 THEN read ELSE Absent)
                /\ claude_response.usage.cache_creation_input_tokens
                      = (IF creation > 0 THEN creation ELSE Absent)
           ELSE /\ claude_response.usage.cache_read_input_tokens = Absent
                /\ claude_response.usage.cache_creation_input_tokens = Absent

\* The feature enabled, the direct field 2 and cached_tokens 1: the result
\* has cache_read_input_tokens 2 and, the direct creation field being 0, no
\* cache_creation_input_tokens.
C35_Witness ==
    /\ claude_response.state = "returned"
    /\ supports_prompt_cache
    /\ openai_response.usage.cache_read_input_tokens = 2
    /\ openai_response.usage.cached_tokens = 1
    /\ openai_response.usage.cache_creation_input_tokens = 0
    /\ claude_response.usage.cache_read_input_tokens = 2
    /\ claude_response.usage.cache_creation_input_tokens = Absent

\* The text of the text deltas among the events, concatenated.
RECURSIVE TextOfEvents(_)
TextOfEvents(evs) ==
    IF evs = <<>> THEN <<>>
    ELSE (IF Head(evs).type = "content_block_delta" /\ Head(evs).sub = "text_delta"
          THEN Head(evs).data ELSE <<>>)
         \o TextOfEvents(Tail(evs))

\* The partial_json of the input_json_deltas at the output index, concatenated.
RECURSIVE PartialJsonOf(_, _)
PartialJsonOf(evs, index) ==
    IF evs = <<>> THEN <<>>
    ELSE (IF /\ Head(evs).type = "content_block_delta"
             /\ Head(evs).sub = "input_json_delta"
             /\ Head(evs).index = index
          THEN Head(evs).data ELSE <<>>)
         \o PartialJsonOf(Tail(evs), index)

\* The tool_use blocks the events add up to, by output index: id and name of
\* content_block_start, and as input the partial_json (the input {} of
\* content_block_start when there is none).
RECURSIVE ToolBlocksOfEvents(_, _)
ToolBlocksOfEvents(evs, all) ==
    IF evs = <<>> THEN <<>>
    ELSE (IF Head(evs).type = "content_block_start" /\ Head(evs).sub = "tool_use"
          THEN LET json == PartialJsonOf(all, Head(evs).index)
               IN <<ToolUseOut(Head(evs).data[1], Head(evs).data[2],
                               IF json = <<>> THEN <<"{", "}">> ELSE json, TRUE)>>
          ELSE <<>>)
         \o ToolBlocksOfEvents(Tail(evs), all)

\* The content reconstructed from the events: the text block of index 0, then
\* the tool_use blocks.
ContentOfEvents(evs) == <<TextOut(TextOfEvents(evs))>> \o ToolBlocksOfEvents(evs, evs)

\* The stop_reason of the message_delta among the events.
StopReasonOfEvents(evs) ==
    LET at == {i \in 1..Len(evs) : evs[i].type = "message_delta"}
    IN IF at = {} THEN None ELSE evs[CHOOSE i \in at : TRUE].sub

\* The tool calls of the assembled message, in the order of their upstream
\* indices.
ByIndex(tool_calls) ==
    [n \in 1..Len(tool_calls) |->
        LET k == CHOOSE k \in 1..Len(tool_calls) :
                    Cardinality({j \in 1..Len(tool_calls) :
                                    tool_calls[j].index <= tool_calls[k].index}) = n
        IN ToolCallObj("function", TRUE, tool_calls[k].id, tool_calls[k].name,
                       tool_calls[k].has_args, tool_calls[k].arguments)]

\* The upstream's complete response for the message assembled from the stream.
CompleteReply ==
    OpenAIResponse(
        <<Choice(IF reply.content = <<>> THEN MessageContent("none", <<>>, <<>>)
                 ELSE MessageContent("str", reply.content, <<>>),
                 IF reply.tool_calls = <<>> THEN ToolCallsField("absent", <<>>)
                 ELSE ToolCallsField("list", ByIndex(reply.tool_calls)),
                 reply.finish_reason # None, reply.finish_reason)>>,
        NoRUsage)

\* The stream is over for both generators and was a reply as the upstream
\* delivers it: no malformed line, nothing after the finish reason, every
\* tool call with an id and a name.
ReplyDelivered ==
    /\ \A v \in Variants : pair[v].phase \in {"done", "error", "raised"}
    /\ ~reply.malformed
    /\ ~reply.after_finish
    /\ \A k \in 1..Len(reply.tool_calls) :
          Truthy(reply.tool_calls[k].id) /\ Truthy(reply.tool_calls[k].name)

\* C36: for a reply delivered as a stream with no malformed lines, the
\* content reconstructed from the events of either generator (the text block
\* of index 0 from its text deltas, then the tool_use blocks by output index
\* with id, name and partial_json) and the stop_reason equal the content
\* blocks and the stop_reason the response converter returns for the same
\* reply delivered complete.
C36_StreamEqualsComplete ==
    ReplyDelivered =>
        \A v \in Variants :
            pair[v].phase = "done" =>
                LET complete == convert_openai_to_claude_response(CompleteReply, FALSE)
                IN /\ ContentOfEvents(pair[v].out) = complete.content
                   /\ StopReasonOfEvents(pair[v].out) = complete.stop_reason

\* The argument fragments the upstream has sent for the upstream tool index,
\* concatenated in arrival order.
FragmentsSent(r, tc_index) ==
    LET at == {j \in 1..Len(r.tool_calls) : r.tool_calls[j].index = tc_index}
    IN IF at = {} THEN <<>> ELSE r.tool_calls[CHOOSE j \in at : TRUE].arguments

\* C37: in both generators, the partial_json of an input_json_delta is the
\* concatenation, in arrival order, of all the argument fragments the
\* upstream has sent for the upstream tool index of its block up to then,
\* those that arrived before the id and the name were both known included.
C37_PartialJsonIsAllFragments ==
    [][\A v \in Variants :
          \A i \in (Len(pair[v].out) + 1)..Len(pair'[v].out) :
              LET e == pair'[v].out[i] IN
              (e.type = "content_block_delta" /\ e.sub = "input_json_delta") =>
                  \E k \in 1..Len(pair'[v].calls) :
                      /\ pair'[v].calls[k].claude_index = e.index
                      /\ e.data = FragmentsSent(reply', pair'[v].calls[k].tc_index)
      ]_vars

C38_Invariant ==
    /\ Positions("message_stop") = {} \/ Positions("error") = {}
    /\ \A i \in Positions("message_stop") \cup Positions("error") : i = Len(out)
    /\ phase = "start" => (out = <<>> /\ lines_read = 0)
    /\ phase # "start" =>
          /\ Len(out) >= 3
          /\ SubSeq(out, 1, 3) = <<MessageStart, TextBlockStart, Ping>>

C38_Step ==
    /\ IsPrefix(out, out')
    /\ lines_read' # lines_read => IsPrefix(<<MessageStart, TextBlockStart, Ping>>, out)
    /\ (out # <<>> /\ LastEvent.type \in {"message_stop", "error"}) => out' = out

\* C38: no run of either generator emits both a message_stop and an error
\* event, and neither is followed by any event; the first three events of a
\* run are message_start, content_block_start of the text block 0 and ping,
\* and they are out before the first upstream line is taken.
C38_OneTerminalEvent == [](C38_Invariant) /\ [][C38_Step]_vars

\* A run that had started a tool block when the upstream raised: it ends
\* with the error event, without message_stop.
C38_Witness ==
    /\ phase = "error"
    /\ loop_exc # NoExc
    /\ ToolStarts # {}
    /\ LastEvent.type = "error"
    /\ Positions("message_stop") = {}
    /\ SubSeq(out, 1, 3) = <<MessageStart, TextBlockStart, Ping>>

\* The text the line handed over in this step adds to the assembled message.
TextAdded == SubSeq(reply'.content, Len(reply.content) + 1, Len(reply'.content))

C39_Invariant ==
    \A v \in Variants :
        /\ IsPrefix(TextOfEvents(pair[v].out), reply.content)
        /\ pair[v].phase = "streaming" => TextOfEvents(pair[v].out) = reply.content

C39_Step ==
    \A v \in Variants :
        LET new == SubSeq(pair'[v].out, Len(pair[v].out) + 1, Len(pair'[v].out))
        IN /\ IsPrefix(pair[v].out, pair'[v].out)
           /\ (pair[v].phase = "streaming" /\ lines_read' # lines_read) =>
                 /\ TextOfEvents(new) = TextAdded
                 /\ TextAdded # <<>> => new[1] = TextDelta(TextAdded[1])
           /\ ~(pair[v].phase = "streaming" /\ lines_read' # lines_read) =>
                 TextOfEvents(new) = <<>>

\* C39: in both generators, each text delta of a chunk taken while the
\* generator iterates gives one text content_block_delta at index 0, the
\* first event of that chunk and appended to what was emitted before; the
\* text deltas emitted are, in order, the upstream's text deltas (all of
\* them while the generator iterates), and no other step emits text.
C39_TextDeltasInOrder == [](C39_Invariant) /\ [][C39_Step]_vars

\* The cancellable generator was handed a tool call that started a block and
\* then a text delta: the text delta follows the tool block's start.
C39_Witness ==
    /\ pair["cancel"].phase = "streaming"
    /\ reply.content = <<"a">>
    /\ \E i, j \in 1..Len(pair["cancel"].out) :
          /\ i < j
          /\ pair["cancel"].out[i].sub = "tool_use"
          /\ pair["cancel"].out[j] = TextDelta("a")
    /\ TextOfEvents(pair["cancel"].out) = <<"a">>

\* C40: in every state of the key manager, between and inside its
\* operations, get_available_key_count() is greater than 0 exactly when
\* get_next_key() would return a key, and get_status() has available_keys +
\* failed_keys = total_keys and available_keys = get_available_key_count().
C40_ViewsAgree ==
    LET count == get_available_key_count(failed_keys, now)
        next == get_next_key(failed_keys, current_index, now)
        status == get_status(failed_keys, now)
    IN /\ count > 0 <=> next.key # NoKey
       /\ status.available_keys + status.failed_keys = status.total_keys
       /\ status.total_keys = Cardinality(Keys)
       /\ status.available_keys = count

\* Key 1 failed long enough ago to be available again, its failure time
\* still recorded, and key 2 in cooldown: one key available in all views.
C40_Witness ==
    /\ DOMAIN failed_keys = {1, 2}
    /\ Expired(failed_keys[1], now)
    /\ ~Expired(failed_keys[2], now)
    /\ get_available_key_count(failed_keys, now) = 1
    /\ get_next_key(failed_keys, current_index, now).key = 1
    /\ get_status(failed_keys, now).failed_keys = 1
====
